---------------------------- MODULE Spec2Model ----------------------------
(***************************************************************************)
(* Schedule Resolution & Override Model of filcdev/chronos.                *)
(*                                                                         *)
(* The relational store is modelled table by table: a table with a primary *)
(* key is a set of row records, a link (M:N) table is a bag of row records *)
(* (the same pair may be stored twice).  Every route handler is one action *)
(* that runs the handler's statements in order against the store, with the *)
(* request, the clock and the storage failures as inputs, and leaves the   *)
(* response in `call`; Deliver hands the response to the caller.           *)
(***************************************************************************)
EXTENDS Integers, Sequences, FiniteSets, Bags, TLC

VARIABLES
    substitution,             \* table substitution: rows [id, date, substituter]
    substitutionLessonMTM,    \* bag of link rows [substitutionId, lessonId]
    movedLesson,              \* rows [id, date, startingPeriod, startingDay, room]
    movedLessonLessonMTM,     \* bag of link rows [movedLessonId, lessonId]
    lesson,                   \* table lesson (owned by the import path)
    lessonCohortMTM,          \* bag of link rows [lessonId, cohortId]
    catalog,                  \* reference tables: teacher, period, dayDefinition, classroom, cohort, subject
    timetable,                \* table timetable: rows [id, validFrom] (owned by the import path)
    route,                    \* the route module this run's requests are addressed to
    positional,               \* the fields this run's request bodies carry beside date and lessonIds
    call,                     \* the handler call whose response is in flight, or Idle
    pending                   \* per concurrent updater: the update it is in the middle of

vars == <<substitution, substitutionLessonMTM, movedLesson, movedLessonLessonMTM,
          lesson, lessonCohortMTM, catalog, timetable, route, positional, call, pending>>

-----------------------------------------------------------------------------
(* Bounds of the model.                                                    *)

\* Longest lesson-id list a request body carries.
MaxLessonIds == 2
\* Longest teacher-id or classroom-id list a lesson row carries.
MaxRefIds == 2

-----------------------------------------------------------------------------
(* Values.                                                                 *)

\* NULL: a column without a value.  NullObject: null (or undefined) where an
\* object is expected.
NULL == "NULL"
NullObject == [null |-> TRUE]

\* Calendar dates as the ISO strings the code compares, with their day numbers.
DateStrs == <<"2025-03-09", "2025-03-10", "2025-03-11">>
DayNum(d) == CHOOSE i \in 1..Len(DateStrs) : DateStrs[i] = d
IsDate(d) == \E i \in 1..Len(DateStrs) : DateStrs[i] = d
HoursPerDay == 24

\* Number.isNaN(new Date(s).getTime()): s does not parse as a date.
IsNaNDate(s) == ~IsDate(s)

EmptyObj == [k \in {} |-> NULL]
Has(body, k) == k \in DOMAIN body
\* A JSON object with the optional key k: opt is <<>> (absent) or <<value>>.
Obj(k, opt) == IF opt = <<>> THEN EmptyObj ELSE (k :> opt[1])
Opt(S) == {<<>>} \cup {<<v>> : v \in S}

\* Sequences over S of length at most n.
SeqsUpTo(S, n) == UNION {[1..k -> S] : k \in 0..n}
Range(s) == {s[i] : i \in DOMAIN s}
\* The bag of the elements of a sequence.
RECURSIVE SeqToBag(_)
SeqToBag(s) == IF s = <<>> THEN EmptyBag
               ELSE SetToBag({Head(s)}) (+) SeqToBag(Tail(s))

-----------------------------------------------------------------------------
(* SQL: three-valued equality, bags of join rows, LEFT JOIN, aggregation.   *)

\* eq(a, b) in a join or WHERE condition: NULL never matches.
SqlEq(a, b) == a # NULL /\ b # NULL /\ a = b

RECURSIVE BagSum(_, _)
\* The sum over the elements x of set S of the bags F[x].
BagSum(S, F) == IF S = {} THEN EmptyBag
                ELSE LET x == CHOOSE y \in S : TRUE
                     IN F[x] (+) BagSum(S \ {x}, F)

\* n copies of element e.
Copies(e, n) == IF n = 0 THEN EmptyBag ELSE (e :> n)

\* The row of NULLs a LEFT JOIN supplies for table columns cols.
NullRow(cols) == [c \in cols |-> NULL]

\* Variant of LeftJoin: an inner join, which drops the left rows that have
\* no match.
InnerJoin(left, right, name, cols, lname, lcol, rcol) ==
    LET ext(l, r) == [k \in DOMAIN l \cup {name} |-> IF k = name THEN r ELSE l[k]]
        matches(l) == {r \in BagToSet(right) : SqlEq(l[lname][lcol], r[rcol])}
        rowsOf(l) ==
            BagSum(matches(l),
                   [r \in matches(l) |->
                       Copies(ext(l, r), CopiesIn(l, left) * CopiesIn(r, right))])
    IN BagSum(BagToSet(left), [l \in BagToSet(left) |-> rowsOf(l)])

\* left LEFT JOIN right ON left[name1][col1] = right[col2], the right row
\* stored under `name`.  left is a bag of join rows, right a bag of rows.
LeftJoin(left, right, name, cols, lname, lcol, rcol) ==
    LET ext(l, r) == [k \in DOMAIN l \cup {name} |-> IF k = name THEN r ELSE l[k]]
        matches(l) == {r \in BagToSet(right) : SqlEq(l[lname][lcol], r[rcol])}
        rowsOf(l) ==
            IF matches(l) = {}
            THEN Copies(ext(l, NullRow(cols)), CopiesIn(l, left))
            ELSE BagSum(matches(l),
                        [r \in matches(l) |->
                            Copies(ext(l, r), CopiesIn(l, left) * CopiesIn(r, right))])
    IN BagSum(BagToSet(left), [l \in BagToSet(left) |-> rowsOf(l)])

\* The rows of bag B that lie in set S (S: the rows a WHERE clause keeps).
Where(B, S) ==
    LET K == BagToSet(B) \cap S IN [x \in K |-> CopiesIn(x, B)]

\* ARRAY_AGG(t.c) FILTER (WHERE t.c IS NOT NULL) over the join rows G of one
\* group: the bag of the non-NULL values (SQL fixes no order without ORDER
\* BY), and NULL when no row passes the filter.
ArrayAggFilter(G, t, c) ==
    LET vals == {x[t][c] : x \in BagToSet(G)} \ {NULL}
        n(v) == LET S == {x \in BagToSet(G) : x[t][c] = v}
                    F == [x \in S |-> Copies(v, CopiesIn(x, G))]
                IN CopiesIn(v, BagSum(S, F))
    IN IF vals = {} THEN NullObject ELSE [v \in vals |-> n(v)]

\* ARRAY_AGG(DISTINCT t.c) FILTER (WHERE t.c IS NOT NULL)
ArrayAggDistinctFilter(G, t, c) ==
    IF ArrayAggFilter(G, t, c) = NullObject THEN NullObject
    ELSE SetToBag(BagToSet(ArrayAggFilter(G, t, c)))

\* Variant of Coalesce: the aggregate is selected as it is.
CoalesceNothing(a, b) == a

\* COALESCE(a, b)
Coalesce(a, b) == IF a = NullObject THEN b ELSE a

\* COALESCE(ARRAY_AGG(t.c) FILTER (WHERE t.c IS NOT NULL), ARRAY[]::text[])
ArrayAgg(G, t, c) == Coalesce(ArrayAggFilter(G, t, c), EmptyBag)

\* COALESCE(ARRAY_AGG(DISTINCT t.c) FILTER (...), ARRAY[]::text[])
ArrayAggDistinct(G, t, c) == Coalesce(ArrayAggDistinctFilter(G, t, c), EmptyBag)

\* drizzle maps a LEFT JOINed table whose columns are all NULL to null.
Nullable(r) == IF \A c \in DOMAIN r : r[c] = NULL THEN NullObject ELSE r

-----------------------------------------------------------------------------
(* The reference catalog and the base lesson plan, as imported.            *)

TeacherCols == {"id", "firstName", "lastName", "short"}
PeriodCols == {"id", "startTime", "endTime", "period"}
NamedCols == {"id", "name", "short"}
CohortCols == {"id", "name"}
LessonCols == {"id", "subjectId", "dayDefinitionId", "periodId", "teacherIds",
               "classroomIds", "weeksDefinitionId", "termDefinitionId", "periodsPerWeek"}
SubstitutionCols == {"id", "date", "substituter"}
SubstitutionLessonCols == {"substitutionId", "lessonId"}
MovedLessonCols == {"id", "date", "startingPeriod", "startingDay", "room"}
MovedLessonLessonCols == {"movedLessonId", "lessonId"}
LessonCohortCols == {"lessonId", "cohortId"}

Named(id) == [id |-> id, name |-> id, short |-> id]

InitCatalog ==
    [teacher |-> {[id |-> "T1", firstName |-> "Ada", lastName |-> "A", short |-> "AA"],
                  [id |-> "T2", firstName |-> "Bob", lastName |-> "B", short |-> "BB"]},
     period |-> {[id |-> "P1", startTime |-> "08:00", endTime |-> "08:45", period |-> "1"]},
     dayDefinition |-> {Named("DAY1")},
     classroom |-> {Named("R1")},
     subject |-> {Named("SUB1")},
     cohort |-> {[id |-> "K1", name |-> "K1"], [id |-> "K2", name |-> "K2"],
                 [id |-> "K3", name |-> "K3"]}]

LessonRow(id, teachers, rooms) ==
    [id |-> id, subjectId |-> "SUB1", dayDefinitionId |-> "DAY1", periodId |-> "P1",
     teacherIds |-> teachers, classroomIds |-> rooms, weeksDefinitionId |-> "W1",
     termDefinitionId |-> "TERM1", periodsPerWeek |-> 1]

\* L1 is a lesson of cohort K1, L2 of cohort K2; cohort K3 has no lesson.
InitLesson == {LessonRow("L1", <<"T1">>, <<"R1">>), LessonRow("L2", <<"T2">>, <<"R1">>)}
InitLessonCohortMTM ==
    SetToBag({[lessonId |-> "L1", cohortId |-> "K1"], [lessonId |-> "L2", cohortId |-> "K2"]})

\* The base plans the lesson route is run on.  Lesson L1 carries any teacher
\* ids and classroom ids (resolving or not, repeated or none) and a subject,
\* a day and a period that resolve or do not; cohort K1 has L1 and L2,
\* cohort K2 has L1 alone, cohort K3 has no lesson.
LessonVariants ==
    {[LessonRow("L1", ts, rs) EXCEPT !.subjectId = s, !.dayDefinitionId = d, !.periodId = p] :
        ts \in SeqsUpTo({"T1", "T2", "TX"}, MaxRefIds),
        rs \in SeqsUpTo({"R1", "RX"}, MaxRefIds),
        s \in {"SUB1", "SUBX"}, d \in {"DAY1", "DX"}, p \in {"P1", "PX"}}
LessonPlans ==
    {[lesson |-> {v, LessonRow("L2", <<"T2">>, <<"R1">>)},
      lessonCohortMTM |->
          SetToBag({[lessonId |-> "L1", cohortId |-> "K1"],
                    [lessonId |-> "L2", cohortId |-> "K1"],
                    [lessonId |-> "L1", cohortId |-> "K2"]})] : v \in LessonVariants}

\* Ids a request may name: the stored ones and one that resolves nowhere.
TeacherIdInputs == {"T2", "TX"}
CohortIdInputs == {"K1", "K2", "K3", "KX"}
SubstitutionIds == {"S1", "S2"}
MovedLessonIds == {"M1", "M2"}

\* The clock of a read: the server's local wall clock shows 2025-03-10 at one
\* of ClockHours, in a time zone TZOffsets hours east of UTC.
LocalToday == "2025-03-10"
ClockHours == {0, 12, 23}
TZOffsets == {-2, 0, 2}
\* Hours since 2025-03-09T00:00Z of the instant the local clock shows hour h.
Instant(h, tz) == (DayNum(LocalToday) - 1) * HoursPerDay + h - tz

-----------------------------------------------------------------------------
(* The store and the call record.                                          *)

\* The tables the override routes import, as one value (a snapshot of the
\* store).
Store ==
    [substitution |-> substitution, substitutionLessonMTM |-> substitutionLessonMTM,
     movedLesson |-> movedLesson, movedLessonLessonMTM |-> movedLessonLessonMTM,
     lesson |-> lesson, lessonCohortMTM |-> lessonCohortMTM, catalog |-> catalog]

\* No call in flight.  Every call record has these fields: the request (op,
\* id, body, cohortId), the inputs the handler reads from its environment
\* (now, tz, and fail: the one statement of the call the storage layer
\* rejects, "none" when all succeed), the error thrown inside the handler
\* (thrown, message), the status delivered to the caller (status), the
\* storage statements issued in order (stmts), the response data (data),
\* whether the actor holds the permission the route asks for (permitted) and
\* the store before the call (pre).
Idle ==
    [op |-> "idle", id |-> NULL, body |-> EmptyObj, cohortId |-> NULL,
     now |-> 0, tz |-> 0, fail |-> "none", thrown |-> "none", message |-> <<>>,
     status |-> "none", stmts |-> <<>>, data |-> {}, permitted |-> TRUE,
     pre |-> [substitution |-> {}, substitutionLessonMTM |-> EmptyBag,
                                           movedLesson |-> {}, movedLessonLessonMTM |-> EmptyBag]]

\* The requests that run while others do: two updaters, each of which makes
\* one update, statement by statement.
Updaters == {"u1", "u2"}
\* An updater that has made no request.  Every updater record has these
\* fields: the request (op, id, body), the statement it issues next (next:
\* "idle" before the request, "done" after it), how the request ended
\* (outcome), the store when the request began (pre) and the store as the
\* statements of its open transaction have left it (tx).
NoUpdate ==
    [op |-> "none", id |-> NULL, body |-> EmptyObj, next |-> "idle", outcome |-> "none",
     pre |-> Idle.pre, tx |-> Idle.pre]

\* The statuses of http-status-codes the handlers use.
OK == "OK"
CREATED == "CREATED"
BAD_REQUEST == "BAD_REQUEST"
NOT_FOUND == "NOT_FOUND"
INTERNAL_SERVER_ERROR == "INTERNAL_SERVER_ERROR"
\* thrown by the storage layer (or by the query builder) rather than by the handler
StorageError == "StorageError"

\* new Date().toISOString().split('T')[0]: the UTC calendar date of instant now.
UtcDateStr(now) == DateStrs[(now \div HoursPerDay) + 1]
\* The calendar date the server's local clock shows at instant now.
LocalDateStr(now, tz) == DateStrs[((now + tz) \div HoursPerDay) + 1]
\* today.setHours(0, 0, 0, 0); today.toISOString().slice(0, 10): the UTC
\* calendar date of the local midnight that began the local day of now.
LocalMidnightUtcDateStr(now, tz) ==
    LET localDay == (now + tz) \div HoursPerDay
        midnight == localDay * HoursPerDay - tz
    IN DateStrs[(midnight \div HoursPerDay) + 1]

\* gte(column, value) on date columns.
DateGte(d, e) == d # NULL /\ DayNum(d) >= DayNum(e)

-----------------------------------------------------------------------------
(* substitution/index.ts: the reads.                                       *)

\* FROM substitution LEFT JOIN teacher LEFT JOIN substitutionLessonMTM
SubstitutionJoin ==
    LeftJoin(
        LeftJoin(SetToBag({[substitution |-> s] : s \in substitution}),
                 SetToBag(catalog.teacher), "teacher", TeacherCols,
                 "substitution", "substituter", "id"),
        substitutionLessonMTM, "substitutionLessonMTM", SubstitutionLessonCols,
        "substitution", "id", "substitutionId")

\* ... LEFT JOIN lesson LEFT JOIN lessonCohortMTM LEFT JOIN cohort
SubstitutionCohortJoin ==
    LeftJoin(
        LeftJoin(
            LeftJoin(SubstitutionJoin, SetToBag(lesson), "lesson", LessonCols,
                     "substitutionLessonMTM", "lessonId", "id"),
            lessonCohortMTM, "lessonCohortMTM", LessonCohortCols, "lesson", "id", "lessonId"),
        SetToBag(catalog.cohort), "cohort", CohortCols, "lessonCohortMTM", "cohortId", "id")

\* GROUP BY substitution.id, teacher.id, selecting {lessons: ARRAY_AGG(...),
\* substitution, teacher}: one result row per group of the join rows J.
SubstitutionGroups(J) ==
    LET keys == {<<x.substitution.id, x.teacher.id>> : x \in BagToSet(J)}
        group(k) == Where(J, {x \in BagToSet(J) : <<x.substitution.id, x.teacher.id>> = k})
        any(k) == CHOOSE x \in BagToSet(group(k)) : TRUE
    IN {[substitution |-> any(k).substitution,
         teacher |-> Nullable(any(k).teacher),
         lessons |-> ArrayAgg(group(k), "substitutionLessonMTM", "lessonId")] : k \in keys}

SelectAllSubstitutions == SubstitutionGroups(SubstitutionJoin)

SelectRelevantSubstitutions(now) ==
    SubstitutionGroups(
        Where(SubstitutionJoin,
              {x \in BagToSet(SubstitutionJoin) :
                  DateGte(x.substitution.date, UtcDateStr(now))}))

SelectRelevantSubstitutionsForCohort(now, cohortId) ==
    SubstitutionGroups(
        Where(SubstitutionCohortJoin,
              {x \in BagToSet(SubstitutionCohortJoin) :
                  /\ DateGte(x.substitution.date, UtcDateStr(now))
                  /\ SqlEq(x.cohort.id, cohortId)}))

\* A read handler's response: the query's rows, or the catch block's 500.
ReadCall(op, cohortId, now, tz, fail, rows) ==
    [op |-> op, cohortId |-> cohortId, now |-> now, tz |-> tz, fail |-> fail,
     thrown |-> IF fail = "select" THEN StorageError ELSE "none",
     status |-> IF fail = "select" THEN INTERNAL_SERVER_ERROR ELSE OK,
     stmts |-> <<"select">>,
     data |-> IF fail = "select" THEN {} ELSE rows,
     pre |-> Store] @@ Idle

UnchangedCatalog ==
    UNCHANGED <<lesson, lessonCohortMTM, catalog, timetable, route, positional, pending>>
UnchangedStore ==
    UNCHANGED <<substitution, substitutionLessonMTM, movedLesson, movedLessonLessonMTM>>
\* The tables are as the statements of a handler run left them.
StoreBecomes(store) ==
    /\ substitution' = store.substitution
    /\ substitutionLessonMTM' = store.substitutionLessonMTM
    /\ movedLesson' = store.movedLesson
    /\ movedLessonLessonMTM' = store.movedLessonLessonMTM
    /\ lesson' = store.lesson
    /\ lessonCohortMTM' = store.lessonCohortMTM
    /\ catalog' = store.catalog
    /\ UNCHANGED <<timetable, route, positional, pending>>

getAllSubstitutions ==
    /\ route = "substitution" /\ call = Idle
    /\ \E fail \in {"none", "select"} :
          call' = ReadCall("getAllSubstitutions", NULL, 0, 0, fail, SelectAllSubstitutions)
    /\ UnchangedStore /\ UnchangedCatalog

getRelevantSubstitutions ==
    /\ route = "substitution" /\ call = Idle
    /\ \E h \in ClockHours, tz \in TZOffsets, fail \in {"none", "select"} :
          call' = ReadCall("getRelevantSubstitutions", NULL, Instant(h, tz), tz, fail,
                           SelectRelevantSubstitutions(Instant(h, tz)))
    /\ UnchangedStore /\ UnchangedCatalog

getRelevantSubstitutionsForCohort ==
    /\ route = "substitution" /\ call = Idle
    /\ \E h \in ClockHours, tz \in TZOffsets, fail \in {"none", "select"},
          cohortId \in CohortIdInputs :
          call' = ReadCall("getRelevantSubstitutionsForCohort", cohortId, Instant(h, tz), tz,
                           fail, SelectRelevantSubstitutionsForCohort(Instant(h, tz), cohortId))
    /\ UnchangedStore /\ UnchangedCatalog

-----------------------------------------------------------------------------
(* substitution/index.ts: the mutations.                                   *)

DateInputs == {"2025-03-09", "2025-03-10", "not-a-date"}
\* The lesson-id lists of the requests: the handlers treat a list as the bag
\* of its ids (inArray, a filter, one link row per entry), so one list per
\* bag is drawn, the one in the order of LessonIdOrder.
LessonIdOrder == <<"L1", "L2", "LX">>
LessonIdLists ==
    {[i \in DOMAIN s |-> LessonIdOrder[s[i]]] :
        s \in {t \in SeqsUpTo(1..Len(LessonIdOrder), MaxLessonIds) :
                  \A i \in 1..(Len(t) - 1) : t[i] <= t[i + 1]}}

\* The id a request body may carry under the key id.
BodyIdInputs == {"S2", "S3"}
\* The request bodies: each of date, substituter, lessonIds present or absent,
\* and in the runs whose bodies carry it, an id.
SubstitutionBodies ==
    {Obj("date", d) @@ Obj("substituter", t) @@ Obj("lessonIds", l) @@ Obj("id", i) :
        d \in Opt(DateInputs), t \in Opt(TeacherIdInputs), l \in Opt(LessonIdLists),
        i \in IF "id" \in positional THEN Opt(BodyIdInputs) ELSE {<<>>}}

\* What a handler run yields: the store it leaves, the error it threw
\* ("none": it returned), the statements it issued, the data it returned.
Out(store, thrown, message, stmts, data) ==
    [store |-> store, thrown |-> thrown, message |-> message, stmts |-> stmts, data |-> data]

\* The status of an actor the authorization check denies.
FORBIDDEN == "FORBIDDEN"

\* Variant of requireAuthorization: the middleware lets every actor through.
requireAuthorizationOfAnyone(permitted) == "none"

\* requireAuthorization(permission), for an actor who holds the permission
\* or does not: the error the middleware throws ("none": it calls next()).
requireAuthorization(permitted) == IF permitted THEN "none" ELSE FORBIDDEN

\* createHandlers(requireAuthentication, requireAuthorization(...), handler):
\* the handler runs when the middleware before it has thrown nothing.
Handlers(denied, run) ==
    IF denied # "none" THEN Out(Store, denied, <<>>, <<>>, {}) ELSE run

\* db.$count(lesson, inArray(lesson.id, lessonIds))
LessonCount(lessonIds) == Cardinality({l \in lesson : l.id \in Range(lessonIds)})

\* Variant of Transaction: the statements of fn stay written when fn throws.
TransactionWithoutRollback(before, written, returned) == written

\* db.transaction(fn): the writes of fn are committed when fn returns and
\* rolled back when it throws.  before: the store when the transaction
\* began; written: the store as fn's statements left it.
Transaction(before, written, returned) == IF returned THEN written ELSE before

\* The status the caller gets for an error that leaves a handler which has no
\* catch block: an HTTPException keeps its status, anything else is a 500.
Uncaught(thrown) == IF thrown = StorageError THEN INTERNAL_SERVER_ERROR ELSE thrown
\* The status the caller gets from a handler whose body is wrapped in
\* try { ... } catch (error) { throw new HTTPException(INTERNAL_SERVER_ERROR) }.
CatchAll(thrown) == INTERNAL_SERVER_ERROR

SubstitutionLinks(id, lessonIds) ==
    SeqToBag([i \in 1..Len(lessonIds) |-> [substitutionId |-> id, lessonId |-> lessonIds[i]]])

\* Variant of EmptyValues: the insert of no rows is a statement like another.
EmptyValuesAccepted(lessonIds) == FALSE

\* tx.insert(substitutionLessonMTM).values(mtmValues) with mtmValues empty:
\* the query builder throws instead of issuing a statement.
EmptyValues(lessonIds) == lessonIds = <<>>

\* Variant of createSubstitutionRun: the row is inserted on its own before
\* the lesson ids are counted.
createSubstitutionRunCountingLate(body, newId, fail) ==
    LET pre == Store
        lessonIds == body["lessonIds"]
        row == [id |-> newId, date |-> body["date"],
                substituter |-> IF Has(body, "substituter") THEN body["substituter"] ELSE NULL]
        inserted == [pre EXCEPT !.substitution = @ \cup {row}]
        linked == [inserted EXCEPT
                      !.substitutionLessonMTM = @ (+) SubstitutionLinks(newId, lessonIds)]
        s1 == <<"insert substitution">>
        s2 == s1 \o <<"count lesson">>
        s3 == s2 \o <<"insert substitutionLessonMTM">>
    IN IF ~(Has(body, "lessonIds") /\ Has(body, "date"))
       THEN Out(pre, BAD_REQUEST, <<"Missing required fields: lessonIds and date are required.">>,
                <<>>, {})
       ELSE IF IsNaNDate(body["date"])
       THEN Out(pre, BAD_REQUEST, <<"Invalid date format.">>, <<>>, {})
       ELSE IF fail = "insert substitution"
       THEN Out(pre, StorageError, <<>>, s1, {})
       ELSE IF LessonCount(lessonIds) # Len(lessonIds)
       THEN Out(inserted, BAD_REQUEST,
                <<"attempted to substitute non-existent lesson(s)", Len(lessonIds),
                  LessonCount(lessonIds)>>, s2, {})
       ELSE IF lessonIds = <<>> \/ fail = "insert substitutionLessonMTM"
       THEN Out(pre, StorageError, <<>>, s3, {})
       ELSE Out(linked, "none", <<>>, s3, {row})

createSubstitutionRun(body, newId, fail) ==
    LET pre == Store
        lessonIds == body["lessonIds"]
        row == [id |-> newId, date |-> body["date"],
                substituter |-> IF Has(body, "substituter") THEN body["substituter"] ELSE NULL]
        inserted == [pre EXCEPT !.substitution = @ \cup {row}]
        linked == [inserted EXCEPT
                      !.substitutionLessonMTM = @ (+) SubstitutionLinks(newId, lessonIds)]
        s1 == <<"count lesson">>
        s2 == s1 \o <<"insert substitution">>
        s3 == s2 \o <<"insert substitutionLessonMTM">>
    IN IF ~(Has(body, "lessonIds") /\ Has(body, "date"))
       THEN Out(pre, BAD_REQUEST, <<"Missing required fields: lessonIds and date are required.">>,
                <<>>, {})
       ELSE IF IsNaNDate(body["date"])
       THEN Out(pre, BAD_REQUEST, <<"Invalid date format.">>, <<>>, {})
       ELSE IF fail = "count lesson"
       THEN Out(pre, StorageError, <<>>, s1, {})
       ELSE IF LessonCount(lessonIds) # Len(lessonIds)
       THEN Out(pre, BAD_REQUEST,
                <<"attempted to substitute non-existent lesson(s)", Len(lessonIds),
                  LessonCount(lessonIds)>>, s1, {})
       ELSE IF fail = "insert substitution"
       THEN Out(Transaction(pre, pre, FALSE), StorageError, <<>>, s2, {})
       ELSE IF EmptyValues(lessonIds)
       \* .values([]) throws in the query builder: no statement is issued
       THEN Out(Transaction(pre, inserted, FALSE), StorageError,
                <<"values() must be called with at least one value">>, s2, {})
       ELSE IF fail = "insert substitutionLessonMTM"
       THEN Out(Transaction(pre, inserted, FALSE), StorageError, <<>>, s3, {})
       ELSE Out(Transaction(pre, linked, TRUE), "none", <<>>, s3, {row})

\* The statements a mutation may be made to fail at: the writes it issues
\* when none fails.
WriteStmts ==
    {"insert substitution", "update substitution", "delete substitution",
     "insert substitutionLessonMTM", "delete substitutionLessonMTM",
     "insert movedLesson", "update movedLesson", "delete movedLesson",
     "insert movedLessonLessonMTM", "delete movedLessonLessonMTM"}
FailChoices(stmts) == {"none"} \cup (Range(stmts) \cap WriteStmts)

createSubstitution ==
    /\ route = "substitution" /\ call = Idle
    /\ \E body \in SubstitutionBodies,
          newId \in SubstitutionIds \ {s.id : s \in substitution} :
        \E permitted \in BOOLEAN :
        \E fail \in IF permitted
                     THEN FailChoices(createSubstitutionRun(body, newId, "none").stmts)
                     ELSE {"none"} :
          LET r == Handlers(requireAuthorization(permitted),
                            createSubstitutionRun(body, newId, fail))
          IN /\ StoreBecomes(r.store)
             /\ call' = [op |-> "createSubstitution", permitted |-> permitted, body |-> body, fail |-> fail,
                         thrown |-> r.thrown, message |-> r.message,
                         status |-> IF r.thrown = "none" THEN OK ELSE Uncaught(r.thrown),
                         stmts |-> r.stmts, data |-> r.data, pre |-> Store] @@ Idle

\* UPDATE ... SET values: the columns named in `values` are replaced.
SetColumns(row, values) ==
    [c \in DOMAIN row |-> IF c \in DOMAIN values THEN values[c] ELSE row[c]]

\* { ...body } without the keys in `dropped` (assigning undefined to a key
\* makes the query builder skip it).
Without(body, dropped) == [k \in DOMAIN body \ dropped |-> body[k]]

\* Variant of DeleteLinks: the statement deletes no row.
DeleteLinksOfNone(links, col, id) == links

\* DELETE FROM links WHERE links.col = id
DeleteLinks(links, col, id) == Where(links, {x \in BagToSet(links) : x[col] # id})

\* Variant of OnDeleteCascade: the foreign key is declared without a cascade
\* that reaches the link rows.
OnDeleteKeepLinks(links, col, id) == links

\* The foreign key of a link table on its override, ON DELETE CASCADE: the
\* link rows of a deleted override row go with it, in the same statement.
OnDeleteCascade(links, col, id) == DeleteLinks(links, col, id)

\* The foreign key of a link table on its override when the id of the
\* override row is updated and the statement is accepted: the link rows
\* follow the row.  (A foreign key that does not cascade rejects the
\* statement while link rows reference the row: the statement fails.)
OnUpdateCascade(links, col, id, newId) ==
    LET moved(x) == [x EXCEPT ![col] = IF @ = id THEN newId ELSE @]
        S == BagToSet(links)
    IN BagSum(S, [x \in S |-> Copies(moved(x), CopiesIn(x, links))])

\* if (body.lessonIds): the update replaces the links of the substitution.
SubstitutionReplacesLinks(body) == Has(body, "lessonIds")

\* The lesson-id list of a request body ([] when the body has none).
LessonIdsOf(body) == IF Has(body, "lessonIds") THEN body["lessonIds"] ELSE <<>>

updateSubstitutionRun(id, body, fail) ==
    LET pre == Store
        updateData == Without(body, {"lessonIds"})
        updatedRows == {SetColumns(s, updateData) : s \in {x \in substitution : x.id = id}}
        \* the id the SET clause gives the row
        setId == IF Has(updateData, "id") THEN updateData["id"] ELSE id
        updated == [pre EXCEPT
                       !.substitution = {x \in @ : x.id # id} \cup updatedRows,
                       !.substitutionLessonMTM =
                           OnUpdateCascade(@, "substitutionId", id, setId)]
        unlinked == [updated EXCEPT
                        !.substitutionLessonMTM = DeleteLinks(@, "substitutionId", id)]
        linked == [unlinked EXCEPT
                      !.substitutionLessonMTM = @ (+) SubstitutionLinks(id, LessonIdsOf(body))]
        s1 == <<"select substitution">>
        s2 == IF Has(body, "lessonIds") THEN s1 \o <<"count lesson">> ELSE s1
        s3 == s2 \o <<"update substitution">>
        s4 == s3 \o <<"delete substitutionLessonMTM">>
        s5 == s4 \o <<"insert substitutionLessonMTM">>
    IN IF fail = "select substitution"
       THEN Out(pre, StorageError, <<>>, s1, {})
       ELSE IF {x \in substitution : x.id = id} = {}
       THEN Out(pre, NOT_FOUND, <<"Substitution not found">>, s1, {})
       ELSE IF Has(body, "date") /\ IsNaNDate(body["date"])
       THEN Out(pre, BAD_REQUEST, <<"Invalid date format">>, s1, {})
       ELSE IF Has(body, "lessonIds") /\ fail = "count lesson"
       THEN Out(pre, StorageError, <<>>, s2, {})
       ELSE IF Has(body, "lessonIds")
               /\ LessonCount(body["lessonIds"]) # Len(body["lessonIds"])
       THEN Out(pre, BAD_REQUEST,
                <<"Some lessons don't exist", Len(body["lessonIds"]),
                  LessonCount(body["lessonIds"])>>, s2, {})
       ELSE IF DOMAIN updateData = {}
       \* .set({}) throws in the query builder: no statement is issued
       THEN Out(Transaction(pre, pre, FALSE), StorageError, <<"No values to set">>, s2, {})
       ELSE IF fail = "update substitution"
       THEN Out(Transaction(pre, pre, FALSE), StorageError, <<>>, s3, {})
       ELSE IF setId # id /\ \E x \in substitution : x.id = setId
       \* the primary key rejects a second row with the id
       THEN Out(Transaction(pre, pre, FALSE), StorageError, <<"duplicate key">>, s3, {})
       ELSE IF ~SubstitutionReplacesLinks(body)
       THEN Out(Transaction(pre, updated, TRUE), "none", <<>>, s3, updatedRows)
       ELSE IF fail = "delete substitutionLessonMTM"
       THEN Out(Transaction(pre, updated, FALSE), StorageError, <<>>, s4, {})
       ELSE IF EmptyValues(LessonIdsOf(body))
       THEN Out(Transaction(pre, unlinked, FALSE), StorageError,
                <<"values() must be called with at least one value">>, s4, {})
       ELSE IF fail = "insert substitutionLessonMTM"
       THEN Out(Transaction(pre, unlinked, FALSE), StorageError, <<>>, s5, {})
       ELSE IF setId # id
       \* the new links name the id of the request path, which no row has now
       THEN Out(Transaction(pre, unlinked, FALSE), StorageError, <<"foreign key">>, s5, {})
       ELSE Out(Transaction(pre, linked, TRUE), "none", <<>>, s5, updatedRows)

updateSubstitution ==
    /\ route = "substitution" /\ call = Idle
    /\ \E id \in SubstitutionIds, body \in SubstitutionBodies :
        \E permitted \in BOOLEAN :
        \E fail \in IF permitted
                     THEN FailChoices(updateSubstitutionRun(id, body, "none").stmts)
                     ELSE {"none"} :
          LET r == Handlers(requireAuthorization(permitted),
                            updateSubstitutionRun(id, body, fail))
          IN /\ StoreBecomes(r.store)
             /\ call' = [op |-> "updateSubstitution", permitted |-> permitted, id |-> id, body |-> body, fail |-> fail,
                         thrown |-> r.thrown, message |-> r.message,
                         status |-> IF r.thrown = "none" THEN OK
                                    ELSE IF permitted THEN CatchAll(r.thrown)
                                    ELSE Uncaught(r.thrown),
                         stmts |-> r.stmts, data |-> r.data, pre |-> Store] @@ Idle

deleteSubstitutionRun(id, fail) ==
    LET pre == Store
        existing == {x \in substitution : x.id = id}
        deleted == [pre EXCEPT
                       !.substitution = @ \ existing,
                       !.substitutionLessonMTM = OnDeleteCascade(@, "substitutionId", id)]
        s1 == <<"select substitution">>
        s2 == s1 \o <<"delete substitution">>
    IN IF fail = "select substitution"
       THEN Out(pre, StorageError, <<>>, s1, {})
       ELSE IF existing = {}
       THEN Out(pre, NOT_FOUND, <<"Substitution not found">>, s1, {})
       ELSE IF fail = "delete substitution"
       THEN Out(pre, StorageError, <<>>, s2, {})
       ELSE Out(deleted, "none", <<>>, s2, existing)

deleteSubstitution ==
    /\ route = "substitution" /\ call = Idle
    /\ \E id \in SubstitutionIds :
        \E permitted \in BOOLEAN :
        \E fail \in IF permitted
                     THEN FailChoices(deleteSubstitutionRun(id, "none").stmts)
                     ELSE {"none"} :
          LET r == Handlers(requireAuthorization(permitted),
                            deleteSubstitutionRun(id, fail))
          IN /\ StoreBecomes(r.store)
             /\ call' = [op |-> "deleteSubstitution", permitted |-> permitted, id |-> id, fail |-> fail,
                         thrown |-> r.thrown, message |-> r.message,
                         status |-> IF r.thrown = "none" THEN OK
                                    ELSE IF permitted THEN CatchAll(r.thrown)
                                    ELSE Uncaught(r.thrown),
                         stmts |-> r.stmts, data |-> r.data, pre |-> Store] @@ Idle

-----------------------------------------------------------------------------
(* movedLesson/index.ts: the reads.                                        *)

\* FROM movedLesson LEFT JOIN period LEFT JOIN dayDefinition
\*   LEFT JOIN classroom LEFT JOIN movedLessonLessonMTM
MovedLessonJoin ==
    LeftJoin(
        LeftJoin(
            LeftJoin(
                LeftJoin(SetToBag({[movedLesson |-> m] : m \in movedLesson}),
                         SetToBag(catalog.period), "period", PeriodCols,
                         "movedLesson", "startingPeriod", "id"),
                SetToBag(catalog.dayDefinition), "dayDefinition", NamedCols,
                "movedLesson", "startingDay", "id"),
            SetToBag(catalog.classroom), "classroom", NamedCols, "movedLesson", "room", "id"),
        movedLessonLessonMTM, "movedLessonLessonMTM", MovedLessonLessonCols,
        "movedLesson", "id", "movedLessonId")

\* ... LEFT JOIN lesson LEFT JOIN lessonCohortMTM
MovedLessonCohortJoin ==
    LeftJoin(
        LeftJoin(MovedLessonJoin, SetToBag(lesson), "lesson", LessonCols,
                 "movedLessonLessonMTM", "lessonId", "id"),
        lessonCohortMTM, "lessonCohortMTM", LessonCohortCols, "lesson", "id", "lessonId")

MovedLessonKey(x) == <<x.movedLesson.id, x.period.id, x.dayDefinition.id, x.classroom.id>>

\* GROUP BY movedLesson.id, period.id, dayDefinition.id, classroom.id,
\* selecting {classroom, dayDefinition, lessons, movedLesson, period};
\* distinct: the lessons column is ARRAY_AGG(DISTINCT ...).
MovedLessonGroups(J, distinct) ==
    LET keys == {MovedLessonKey(x) : x \in BagToSet(J)}
        group(k) == Where(J, {x \in BagToSet(J) : MovedLessonKey(x) = k})
        any(k) == CHOOSE x \in BagToSet(group(k)) : TRUE
    IN {[movedLesson |-> any(k).movedLesson,
         period |-> Nullable(any(k).period),
         dayDefinition |-> Nullable(any(k).dayDefinition),
         classroom |-> Nullable(any(k).classroom),
         lessons |-> IF distinct
                     THEN ArrayAggDistinct(group(k), "movedLessonLessonMTM", "lessonId")
                     ELSE ArrayAgg(group(k), "movedLessonLessonMTM", "lessonId")] : k \in keys}

SelectAllMovedLessons == MovedLessonGroups(MovedLessonJoin, FALSE)

SelectRelevantMovedLessons(now, tz) ==
    MovedLessonGroups(
        Where(MovedLessonJoin,
              {x \in BagToSet(MovedLessonJoin) :
                  DateGte(x.movedLesson.date, LocalMidnightUtcDateStr(now, tz))}),
        FALSE)

SelectMovedLessonsForCohort(cohortId) ==
    MovedLessonGroups(
        Where(MovedLessonCohortJoin,
              {x \in BagToSet(MovedLessonCohortJoin) :
                  SqlEq(x.lessonCohortMTM.cohortId, cohortId)}),
        TRUE)

SelectRelevantMovedLessonsForCohort(now, tz, cohortId) ==
    MovedLessonGroups(
        Where(MovedLessonCohortJoin,
              {x \in BagToSet(MovedLessonCohortJoin) :
                  /\ SqlEq(x.lessonCohortMTM.cohortId, cohortId)
                  /\ DateGte(x.movedLesson.date, LocalMidnightUtcDateStr(now, tz))}),
        TRUE)

getAllMovedLessons ==
    /\ route = "movedLesson" /\ call = Idle
    /\ \E fail \in {"none", "select"} :
          call' = ReadCall("getAllMovedLessons", NULL, 0, 0, fail, SelectAllMovedLessons)
    /\ UnchangedStore /\ UnchangedCatalog

getRelevantMovedLessons ==
    /\ route = "movedLesson" /\ call = Idle
    /\ \E h \in ClockHours, tz \in TZOffsets, fail \in {"none", "select"} :
          call' = ReadCall("getRelevantMovedLessons", NULL, Instant(h, tz), tz, fail,
                           SelectRelevantMovedLessons(Instant(h, tz), tz))
    /\ UnchangedStore /\ UnchangedCatalog

getMovedLessonsForCohort ==
    /\ route = "movedLesson" /\ call = Idle
    /\ \E fail \in {"none", "select"}, cohortId \in CohortIdInputs :
          call' = ReadCall("getMovedLessonsForCohort", cohortId, 0, 0, fail,
                           SelectMovedLessonsForCohort(cohortId))
    /\ UnchangedStore /\ UnchangedCatalog

getRelevantMovedLessonsForCohort ==
    /\ route = "movedLesson" /\ call = Idle
    /\ \E h \in ClockHours, tz \in TZOffsets, fail \in {"none", "select"},
          cohortId \in CohortIdInputs :
          call' = ReadCall("getRelevantMovedLessonsForCohort", cohortId, Instant(h, tz), tz,
                           fail,
                           SelectRelevantMovedLessonsForCohort(Instant(h, tz), tz, cohortId))
    /\ UnchangedStore /\ UnchangedCatalog

-----------------------------------------------------------------------------
(* movedLesson/index.ts: the mutations.                                    *)

PositionalFields == {"startingPeriod", "startingDay", "room"}
\* The values a request gives a positional field: the catalog's id, or one
\* that resolves nowhere.
PositionalInputs ==
    [startingPeriod |-> {"P1", "PX"}, startingDay |-> {"DAY1", "DX"}, room |-> {"R1", "RX"}]
MovedLessonDateInputs == {"2025-03-09", "2025-03-10"}

MovedLessonBodies ==
    {Obj("date", d) @@ Obj("startingPeriod", sp) @@ Obj("startingDay", sd)
        @@ Obj("room", r) @@ Obj("lessonIds", l) @@ Obj("id", i) :
        d \in Opt(MovedLessonDateInputs),
        i \in IF "id" \in positional THEN Opt(BodyIdInputs) ELSE {<<>>},
        sp \in IF "startingPeriod" \in positional
                THEN Opt(PositionalInputs.startingPeriod) ELSE {<<>>},
        sd \in IF "startingDay" \in positional
                THEN Opt(PositionalInputs.startingDay) ELSE {<<>>},
        r \in IF "room" \in positional THEN Opt(PositionalInputs.room) ELSE {<<>>},
        l \in Opt(LessonIdLists)}

\* ensurePeriodExists, ensureDayDefinitionExists, ensureClassroomExists: the
\* select finds a row of the table with that id.
EnsureExists(table, id) == \E row \in table : row.id = id

\* ensureLessonsExist: the supplied ids absent from the lesson table, in the
\* order supplied.
MissingLessonIds(lessonIds) ==
    SelectSeq(lessonIds, LAMBDA id : ~(\E l \in lesson : l.id = id))

\* validateMovedLessonReferences, as the checks it runs in order: each the
\* statement it issues, whether it passes, and the message of its error.
MovedLessonChecks(body) ==
    (IF Has(body, "startingPeriod")
     THEN <<[stmt |-> "select period",
             ok |-> EnsureExists(catalog.period, body["startingPeriod"]),
             message |-> <<"Invalid starting period provided">>]>>
     ELSE <<>>)
    \o (IF Has(body, "startingDay")
        THEN <<[stmt |-> "select dayDefinition",
                ok |-> EnsureExists(catalog.dayDefinition, body["startingDay"]),
                message |-> <<"Invalid starting day provided">>]>>
        ELSE <<>>)
    \o (IF Has(body, "room")
        THEN <<[stmt |-> "select classroom",
                ok |-> EnsureExists(catalog.classroom, body["room"]),
                message |-> <<"Invalid classroom provided">>]>>
        ELSE <<>>)
    \o (IF Has(body, "lessonIds") /\ Len(body["lessonIds"]) > 0
        THEN <<[stmt |-> "select lesson",
                ok |-> MissingLessonIds(body["lessonIds"]) = <<>>,
                message |-> <<"Invalid lesson ids provided",
                              MissingLessonIds(body["lessonIds"])>>]>>
        ELSE <<>>)

\* The run of validateMovedLessonReferences: the error it throws ("none":
\* it returns), and the statements it issued.
validateMovedLessonReferences(body, fail) ==
    LET checks == MovedLessonChecks(body)
        stops == {i \in 1..Len(checks) : checks[i].stmt = fail \/ ~checks[i].ok}
        last == IF stops = {} THEN Len(checks)
                ELSE CHOOSE i \in stops : \A j \in stops : i <= j
        issued == [i \in 1..last |-> checks[i].stmt]
    IN IF stops = {} THEN [thrown |-> "none", message |-> <<>>, stmts |-> issued]
       ELSE IF checks[last].stmt = fail
       THEN [thrown |-> StorageError, message |-> <<>>, stmts |-> issued]
       ELSE [thrown |-> BAD_REQUEST, message |-> checks[last].message, stmts |-> issued]

MovedLessonLinks(id, lessonIds) ==
    SeqToBag([i \in 1..Len(lessonIds) |-> [movedLessonId |-> id, lessonId |-> lessonIds[i]]])

\* The value a column gets from a request field: undefined leaves the default.
FieldOrNull(body, k) == IF Has(body, k) THEN body[k] ELSE NULL

createMovedLessonRun(body, newId, fail) ==
    LET pre == Store
        v == validateMovedLessonReferences(body, fail)
        row == [id |-> newId, date |-> body["date"],
                startingPeriod |-> FieldOrNull(body, "startingPeriod"),
                startingDay |-> FieldOrNull(body, "startingDay"),
                room |-> FieldOrNull(body, "room")]
        inserted == [pre EXCEPT !.movedLesson = @ \cup {row}]
        linked == [inserted EXCEPT
                      !.movedLessonLessonMTM = @ (+) MovedLessonLinks(newId, body["lessonIds"])]
        s1 == v.stmts \o <<"insert movedLesson">>
        s2 == s1 \o <<"insert movedLessonLessonMTM">>
    IN IF ~Has(body, "date")
       THEN Out(pre, BAD_REQUEST, <<"Date is required">>, <<>>, {})
       ELSE IF v.thrown # "none"
       THEN Out(pre, v.thrown, v.message, v.stmts, {})
       ELSE IF fail = "insert movedLesson"
       THEN Out(pre, StorageError, <<>>, s1, {})
       ELSE IF ~(Has(body, "lessonIds") /\ Len(body["lessonIds"]) > 0)
       THEN Out(inserted, "none", <<>>, s1, {row})
       ELSE IF fail = "insert movedLessonLessonMTM"
       THEN Out(inserted, StorageError, <<>>, s2, {})
       ELSE Out(linked, "none", <<>>, s2, {row})

createMovedLesson ==
    /\ route = "movedLesson" /\ call = Idle
    /\ \E body \in MovedLessonBodies,
          newId \in MovedLessonIds \ {m.id : m \in movedLesson} :
        \E permitted \in BOOLEAN :
        \E fail \in IF permitted
                     THEN FailChoices(createMovedLessonRun(body, newId, "none").stmts)
                     ELSE {"none"} :
          LET r == Handlers(requireAuthorization(permitted),
                            createMovedLessonRun(body, newId, fail))
          IN /\ StoreBecomes(r.store)
             /\ call' = [op |-> "createMovedLesson", permitted |-> permitted, body |-> body, fail |-> fail,
                         thrown |-> r.thrown, message |-> r.message,
                         status |-> IF r.thrown = "none" THEN CREATED
                                    ELSE IF permitted THEN CatchAll(r.thrown)
                                    ELSE Uncaught(r.thrown),
                         stmts |-> r.stmts, data |-> r.data, pre |-> Store] @@ Idle

\* The .set({...}) of updateMovedLesson: the four columns, each from the
\* request field of its name when that is not undefined.
MovedLessonUpdateData(body) ==
    [k \in DOMAIN body \cap {"date", "room", "startingDay", "startingPeriod"} |-> body[k]]

\* Variant of MovedLessonReplacesLinks: every update replaces the links.
MovedLessonAlwaysReplacesLinks(body) == TRUE

\* if (lessonIds !== undefined && Array.isArray(lessonIds)): the update
\* replaces the links of the moved lesson.
MovedLessonReplacesLinks(body) == Has(body, "lessonIds")

updateMovedLessonRun(id, body, fail) ==
    LET pre == Store
        v == validateMovedLessonReferences(body, fail)
        updateData == MovedLessonUpdateData(body)
        updatedRows == {SetColumns(m, updateData) : m \in {x \in movedLesson : x.id = id}}
        updated == [pre EXCEPT !.movedLesson = {x \in @ : x.id # id} \cup updatedRows]
        unlinked == [updated EXCEPT
                        !.movedLessonLessonMTM = DeleteLinks(@, "movedLessonId", id)]
        linked == [unlinked EXCEPT
                      !.movedLessonLessonMTM = @ (+) MovedLessonLinks(id, LessonIdsOf(body))]
        s1 == v.stmts \o <<"update movedLesson">>
        s2 == s1 \o <<"delete movedLessonLessonMTM">>
        s3 == s2 \o <<"insert movedLessonLessonMTM">>
    IN IF v.thrown # "none"
       THEN Out(pre, v.thrown, v.message, v.stmts, {})
       ELSE IF DOMAIN updateData = {}
       \* .set({}) throws in the query builder: no statement is issued
       THEN Out(pre, StorageError, <<"No values to set">>, v.stmts, {})
       ELSE IF fail = "update movedLesson"
       THEN Out(pre, StorageError, <<>>, s1, {})
       ELSE IF updatedRows = {}
       THEN Out(updated, NOT_FOUND, <<"Moved lesson not found">>, s1, {})
       ELSE IF ~MovedLessonReplacesLinks(body)
       THEN Out(updated, "none", <<>>, s1, updatedRows)
       ELSE IF fail = "delete movedLessonLessonMTM"
       THEN Out(updated, StorageError, <<>>, s2, {})
       ELSE IF LessonIdsOf(body) = <<>>
       THEN Out(unlinked, "none", <<>>, s2, updatedRows)
       ELSE IF fail = "insert movedLessonLessonMTM"
       THEN Out(unlinked, StorageError, <<>>, s3, {})
       ELSE Out(linked, "none", <<>>, s3, updatedRows)

updateMovedLesson ==
    /\ route = "movedLesson" /\ call = Idle
    /\ \E id \in MovedLessonIds, body \in MovedLessonBodies :
        \E permitted \in BOOLEAN :
        \E fail \in IF permitted
                     THEN FailChoices(updateMovedLessonRun(id, body, "none").stmts)
                     ELSE {"none"} :
          LET r == Handlers(requireAuthorization(permitted),
                            updateMovedLessonRun(id, body, fail))
          IN /\ StoreBecomes(r.store)
             /\ call' = [op |-> "updateMovedLesson", permitted |-> permitted, id |-> id, body |-> body, fail |-> fail,
                         thrown |-> r.thrown, message |-> r.message,
                         status |-> IF r.thrown = "none" THEN OK
                                    ELSE IF permitted THEN CatchAll(r.thrown)
                                    ELSE Uncaught(r.thrown),
                         stmts |-> r.stmts, data |-> r.data, pre |-> Store] @@ Idle

\* Variant of deleteMovedLessonRun: the delete takes the lessons the moved
\* lesson is linked to with it.
deleteMovedLessonRunWithLessons(id, fail) ==
    LET pre == Store
        existing == {x \in movedLesson : x.id = id}
        moved == {x.lessonId : x \in {y \in BagToSet(movedLessonLessonMTM) :
                                          y.movedLessonId = id}}
        deleted == [pre EXCEPT
                       !.movedLesson = @ \ existing,
                       !.movedLessonLessonMTM = OnDeleteCascade(@, "movedLessonId", id),
                       !.lesson = {l \in @ : l.id \notin moved}]
        s1 == <<"delete movedLesson">>
    IN IF fail = "delete movedLesson"
       THEN Out(pre, StorageError, <<>>, s1, {})
       ELSE IF existing = {}
       THEN Out(pre, NOT_FOUND, <<"Moved lesson not found">>, s1, {})
       ELSE Out(deleted, "none", <<>>, s1, existing)

deleteMovedLessonRun(id, fail) ==
    LET pre == Store
        existing == {x \in movedLesson : x.id = id}
        deleted == [pre EXCEPT
                       !.movedLesson = @ \ existing,
                       !.movedLessonLessonMTM = OnDeleteCascade(@, "movedLessonId", id)]
        s1 == <<"delete movedLesson">>
    IN IF fail = "delete movedLesson"
       THEN Out(pre, StorageError, <<>>, s1, {})
       ELSE IF existing = {}
       THEN Out(pre, NOT_FOUND, <<"Moved lesson not found">>, s1, {})
       ELSE Out(deleted, "none", <<>>, s1, existing)

deleteMovedLesson ==
    /\ route = "movedLesson" /\ call = Idle
    /\ \E id \in MovedLessonIds :
        \E permitted \in BOOLEAN :
        \E fail \in IF permitted
                     THEN FailChoices(deleteMovedLessonRun(id, "none").stmts)
                     ELSE {"none"} :
          LET r == Handlers(requireAuthorization(permitted),
                            deleteMovedLessonRun(id, fail))
          IN /\ StoreBecomes(r.store)
             /\ call' = [op |-> "deleteMovedLesson", permitted |-> permitted, id |-> id, fail |-> fail,
                         thrown |-> r.thrown, message |-> r.message,
                         status |-> IF r.thrown = "none" THEN OK
                                    ELSE IF permitted THEN CatchAll(r.thrown)
                                    ELSE Uncaught(r.thrown),
                         stmts |-> r.stmts, data |-> r.data, pre |-> Store] @@ Idle

-----------------------------------------------------------------------------
(* lesson/index.ts: getLessonsForCohort.                                   *)

\* Variant of MapGet: a key that is not in the map gets some row of the map.
MapGetSome(rows, id) ==
    IF \E r \in rows : r.id = id THEN CHOOSE r \in rows : r.id = id
    ELSE IF rows # {} THEN CHOOSE r \in rows : TRUE
    ELSE NullObject

\* new Map(rows.map((r) => [r.id, r])).get(id): the row with that id, or
\* undefined.
MapGet(rows, id) ==
    IF \E r \in rows : r.id = id THEN CHOOSE r \in rows : r.id = id ELSE NullObject

\* db.select().from(table).where(inArray(table.id, ids))
SelectIn(table, ids) == {r \in table : r.id \in ids}

\* FROM lesson INNER JOIN lessonCohortMTM ON lesson.id = lessonCohortMTM.lessonId
\* WHERE lessonCohortMTM.cohortId = cohortId: one lesson row per link row.
LessonRowsOfCohort(cohortId) ==
    LET links == {x \in BagToSet(lessonCohortMTM) : SqlEq(x.cohortId, cohortId)}
        rowsOf(x) == {l \in lesson : SqlEq(l.id, x.lessonId)}
    IN BagSum(links,
              [x \in links |->
                  BagSum(rowsOf(x),
                         [l \in rowsOf(x) |-> Copies(l, CopiesIn(x, lessonCohortMTM))])])

\* The union of the ranges of the sequences f[l], l in S.
FlatIds(S, f) == UNION {Range(l[f]) : l \in S}

\* Variant of Resolved: an id that is not found empties the list.
ResolvedOrNothing(ids, rows) ==
    IF \E i \in DOMAIN ids : MapGet(rows, ids[i]) = NullObject THEN <<>>
    ELSE [i \in DOMAIN ids |-> MapGet(rows, ids[i])]

\* tIds.map((id) => map.get(id)).filter(Boolean): the rows found, in the
\* order of the ids.
Resolved(ids, rows) ==
    LET found == SelectSeq(ids, LAMBDA id : MapGet(rows, id) # NullObject)
    IN [i \in 1..Len(found) |-> MapGet(rows, found[i])]

Enrich(l, subjects, days, periods, teachers, classrooms) ==
    LET s == MapGet(subjects, l.subjectId)
        p == MapGet(periods, l.periodId)
        ts == Resolved(l.teacherIds, teachers)
        cs == Resolved(l.classroomIds, classrooms)
    IN [id |-> l.id,
        subject |-> IF s # NullObject
                    THEN [id |-> s.id, name |-> s.name, short |-> s.short]
                    ELSE NullObject,
        teachers |-> [i \in 1..Len(ts) |->
                         [id |-> ts[i].id, name |-> <<ts[i].firstName, " ", ts[i].lastName>>,
                          short |-> ts[i].short]],
        classrooms |-> [i \in 1..Len(cs) |->
                           [id |-> cs[i].id, name |-> cs[i].name, short |-> cs[i].short]],
        day |-> MapGet(days, l.dayDefinitionId),
        period |-> IF p # NullObject
                   THEN [id |-> p.id, startTime |-> p.startTime, endTime |-> p.endTime,
                         period |-> p.period]
                   ELSE NullObject,
        weeksDefinitionId |-> l.weeksDefinitionId,
        termDefinitionId |-> l.termDefinitionId,
        periodsPerWeek |-> l.periodsPerWeek]

\* Variant of EnrichmentLookups: all five lookups are issued.
EnrichmentLookupsOfAll(lessons) ==
    <<"select subject", "select dayDefinition", "select period", "select teacher",
      "select classroom">>

\* The lookups of Promise.all, in the order of the array: the teacher and
\* classroom lookups are issued only for a non-empty id list.
EnrichmentLookups(lessons) ==
    <<"select subject", "select dayDefinition", "select period">>
    \o (IF FlatIds(lessons, "teacherIds") # {} THEN <<"select teacher">> ELSE <<>>)
    \o (IF FlatIds(lessons, "classroomIds") # {} THEN <<"select classroom">> ELSE <<>>)

\* Variant of ExistingCohort: the select has no WHERE clause.
ExistingCohortOfAny(cohortId) == catalog.cohort

\* db.select().from(cohort).where(eq(cohort.id, cohortId)).limit(1)
ExistingCohort(cohortId) == {k \in catalog.cohort : k.id = cohortId}

getLessonsForCohortRun(cohortId, fail) ==
    LET pre == Store
        rows == LessonRowsOfCohort(cohortId)
        lessons == BagToSet(rows)
        subjects == SelectIn(catalog.subject, {l.subjectId : l \in lessons})
        days == SelectIn(catalog.dayDefinition, {l.dayDefinitionId : l \in lessons})
        periods == SelectIn(catalog.period, {l.periodId : l \in lessons})
        teachers == SelectIn(catalog.teacher, FlatIds(lessons, "teacherIds"))
        classrooms == SelectIn(catalog.classroom, FlatIds(lessons, "classroomIds"))
        enriched ==
            BagSum(lessons,
                   [l \in lessons |->
                       Copies(Enrich(l, subjects, days, periods, teachers, classrooms),
                              CopiesIn(l, rows))])
        s1 == <<"select cohort">>
        s2 == s1 \o <<"select lesson">>
        s3 == s2 \o EnrichmentLookups(lessons)
    IN IF fail = "select cohort"
       THEN Out(pre, StorageError, <<>>, s1, EmptyBag)
       ELSE IF ExistingCohort(cohortId) = {}
       THEN Out(pre, NOT_FOUND, <<"Cohort not found">>, s1, EmptyBag)
       ELSE IF fail = "select lesson"
       THEN Out(pre, StorageError, <<>>, s2, EmptyBag)
       ELSE IF lessons = {}
       THEN Out(pre, "none", <<>>, s2, EmptyBag)
       ELSE IF fail \in Range(EnrichmentLookups(lessons))
       THEN Out(pre, StorageError, <<>>, s3, EmptyBag)
       ELSE Out(pre, "none", <<>>, s3, enriched)

getLessonsForCohort ==
    /\ route = "lesson" /\ call = Idle
    /\ \E cohortId \in CohortIdInputs :
        \E fail \in {"none"} \cup Range(getLessonsForCohortRun(cohortId, "none").stmts) :
          LET r == getLessonsForCohortRun(cohortId, fail)
          IN call' = [op |-> "getLessonsForCohort", cohortId |-> cohortId, fail |-> fail,
                      thrown |-> r.thrown, message |-> r.message,
                      status |-> IF r.thrown = "none" THEN OK ELSE Uncaught(r.thrown),
                      stmts |-> r.stmts, data |-> r.data, pre |-> Store] @@ Idle
    /\ UnchangedStore /\ UnchangedCatalog

-----------------------------------------------------------------------------
(* timetable/index.ts: the reads of the plan versions.                     *)

\* The plan versions the import may have stored: any of one version per date.
TimetableRow(d) == [id |-> <<"TT", d>>, validFrom |-> d]
TimetableTables == {{TimetableRow(d) : d \in D} : D \in SUBSET Range(DateStrs)}
InitTimetable == {TimetableRow(LocalToday)}

\* dateToYYYYMMDD(new Date()): date.toLocaleDateString('en-CA', ...), the
\* calendar date of the server's local clock.
dateToYYYYMMDD(now, tz) == LocalDateStr(now, tz)

\* .where(gte(timetable.validFrom, today))
ValidFromFilter(rows, today) == {t \in rows : DateGte(t.validFrom, today)}

\* .orderBy(desc(timetable.validFrom)).limit(1): the rows that may come
\* first (one, as no two versions share a validFrom), none of an empty set.
FirstByValidFromDesc(rows) ==
    {t \in rows : \A u \in rows : DayNum(u.validFrom) <= DayNum(t.validFrom)}

\* The text returned in place of a row, as a value that compares with a row.
NoValidTimetable == [text |-> "No valid timetable found."]

\* The data of getLatestValidTimetable's response.
LatestValidTimetable(today) ==
    LET first == FirstByValidFromDesc(ValidFromFilter(timetable, today))
    IN IF first = {} THEN {NoValidTimetable} ELSE first

getAllTimetables ==
    /\ route = "timetable" /\ call = Idle
    /\ \E fail \in {"none", "select"} :
          call' = ReadCall("getAllTimetables", NULL, 0, 0, fail, timetable)
    /\ UnchangedStore /\ UnchangedCatalog

getLatestValidTimetable ==
    /\ route = "timetable" /\ call = Idle
    /\ \E h \in ClockHours, tz \in TZOffsets, fail \in {"none", "select"} :
          call' = ReadCall("getLatestValidTimetable", NULL, Instant(h, tz), tz, fail,
                           LatestValidTimetable(dateToYYYYMMDD(Instant(h, tz), tz)))
    /\ UnchangedStore /\ UnchangedCatalog

getAllValidTimetables ==
    /\ route = "timetable" /\ call = Idle
    /\ \E h \in ClockHours, tz \in TZOffsets, fail \in {"none", "select"} :
          call' = ReadCall("getAllValidTimetables", NULL, Instant(h, tz), tz, fail,
                           ValidFromFilter(timetable, dateToYYYYMMDD(Instant(h, tz), tz)))
    /\ UnchangedStore /\ UnchangedCatalog

-----------------------------------------------------------------------------
(* The system.                                                             *)

\* The response reaches the caller; the next request may start.
Deliver ==
    /\ call # Idle
    /\ call' = Idle
    /\ UnchangedStore /\ UnchangedCatalog

\* A run addresses one route module; the handlers of a module read and write
\* only the tables that module imports.  The moved-lesson requests of a run
\* carry the positional fields in `positional`.
Runs ==
    {<<"substitution", {}>>, <<"movedLesson", {"startingPeriod"}>>, <<"lesson", {}>>,
     <<"timetable", {}>>}

Init ==
    /\ \E run \in Runs : route = run[1] /\ positional = run[2]
    /\ substitution = {}
    /\ substitutionLessonMTM = EmptyBag
    /\ movedLesson = {}
    /\ movedLessonLessonMTM = EmptyBag
    /\ \E plan \in IF route = "lesson" THEN LessonPlans
                      ELSE {[lesson |-> InitLesson, lessonCohortMTM |-> InitLessonCohortMTM]} :
          lesson = plan.lesson /\ lessonCohortMTM = plan.lessonCohortMTM
    /\ catalog = InitCatalog
    /\ timetable \in IF route = "timetable" THEN TimetableTables ELSE {InitTimetable}
    /\ call = Idle
    /\ pending = [u \in Updaters |-> NoUpdate]

Next ==
    \/ getAllSubstitutions
    \/ getRelevantSubstitutions
    \/ getRelevantSubstitutionsForCohort
    \/ createSubstitution
    \/ updateSubstitution
    \/ deleteSubstitution
    \/ getAllMovedLessons
    \/ getRelevantMovedLessons
    \/ getMovedLessonsForCohort
    \/ getRelevantMovedLessonsForCohort
    \/ createMovedLesson
    \/ updateMovedLesson
    \/ deleteMovedLesson
    \/ getLessonsForCohort
    \/ getAllTimetables
    \/ getLatestValidTimetable
    \/ getAllValidTimetables
    \/ Deliver

Spec == Init /\ [][Next]_vars

-----------------------------------------------------------------------------
(* Requests that overlap.  Each handler call is a unit of work of its own  *)
(* against the shared store: the statements of an update are issued one at *)
(* a time, and a statement of another request may run between two of them. *)
(* A statement issued on db is committed when it returns; the statements   *)
(* issued on tx inside db.transaction are committed together, or not at    *)
(* all.  A read is one SELECT and sees committed rows only.                *)

\* The bodies of the overlapping updates: a date, and a lesson-id list or none.
ConcurrentBodies ==
    {Obj("date", <<"2025-03-10">>) @@ Obj("lessonIds", l) :
        l \in Opt({<<"L1">>, <<"L2">>, <<>>})}

\* The store the overlapping requests start on: substitution S1 and moved
\* lesson M1, each linked to lesson L1.
InitConcurrent ==
    /\ route \in {"substitution", "movedLesson"}
    /\ positional = {}
    /\ substitution = {[id |-> "S1", date |-> "2025-03-09", substituter |-> NULL]}
    /\ substitutionLessonMTM = SubstitutionLinks("S1", <<"L1">>)
    /\ movedLesson = {[id |-> "M1", date |-> "2025-03-09", startingPeriod |-> NULL,
                        startingDay |-> NULL, room |-> NULL]}
    /\ movedLessonLessonMTM = MovedLessonLinks("M1", <<"L1">>)
    /\ lesson = InitLesson
    /\ lessonCohortMTM = InitLessonCohortMTM
    /\ catalog = InitCatalog
    /\ timetable = InitTimetable
    /\ call = Idle
    /\ pending = [u \in Updaters |-> NoUpdate]

UnchangedRequests ==
    UNCHANGED <<lesson, lessonCohortMTM, catalog, timetable, route, positional, call>>

\* The foreign key of a link table on its override: a link row that names
\* id is refused when no row of the override table has that id.
ForeignKeyRejects(rows, id) == \A x \in rows : x.id # id

\* Updater u moves on to statement next, or ends with outcome.
Proceeds(u, next, outcome) ==
    pending' = [pending EXCEPT ![u].next = next, ![u].outcome = outcome]

\* updateMovedLesson up to its first write: the references are validated.
updateMovedLessonBegins(u) ==
    /\ route = "movedLesson" /\ pending[u].next = "idle"
    /\ \E id \in MovedLessonIds, body \in ConcurrentBodies :
          /\ validateMovedLessonReferences(body, "none").thrown = "none"
          /\ pending' = [pending EXCEPT ![u] =
                            [op |-> "updateMovedLesson", id |-> id, body |-> body,
                             next |-> "update movedLesson", outcome |-> "none",
                             pre |-> Store, tx |-> Store]]
    /\ UnchangedStore /\ UnchangedRequests

\* db.update(movedLesson).set({...}).where(eq(movedLesson.id, id)).returning()
updateMovedLessonRow(u) ==
    LET q == pending[u]
        updatedRows == {SetColumns(m, MovedLessonUpdateData(q.body)) :
                           m \in {x \in movedLesson : x.id = q.id}}
    IN /\ q.op = "updateMovedLesson" /\ q.next = "update movedLesson"
       /\ movedLesson' = {x \in movedLesson : x.id # q.id} \cup updatedRows
       /\ IF updatedRows = {} THEN Proceeds(u, "done", NOT_FOUND)
          ELSE IF MovedLessonReplacesLinks(q.body)
          THEN Proceeds(u, "delete movedLessonLessonMTM", "none")
          ELSE Proceeds(u, "done", OK)
       /\ UNCHANGED <<substitution, substitutionLessonMTM, movedLessonLessonMTM>>
       /\ UnchangedRequests

\* db.delete(movedLessonLessonMTM).where(eq(movedLessonLessonMTM.movedLessonId, id))
updateMovedLessonDeletesLinks(u) ==
    LET q == pending[u]
    IN /\ q.op = "updateMovedLesson" /\ q.next = "delete movedLessonLessonMTM"
       /\ movedLessonLessonMTM' = DeleteLinks(movedLessonLessonMTM, "movedLessonId", q.id)
       /\ IF LessonIdsOf(q.body) = <<>> THEN Proceeds(u, "done", OK)
          ELSE Proceeds(u, "insert movedLessonLessonMTM", "none")
       /\ UNCHANGED <<substitution, substitutionLessonMTM, movedLesson>>
       /\ UnchangedRequests

\* db.insert(movedLessonLessonMTM).values(...)
updateMovedLessonInsertsLinks(u) ==
    LET q == pending[u]
    IN /\ q.op = "updateMovedLesson" /\ q.next = "insert movedLessonLessonMTM"
       /\ IF ForeignKeyRejects(movedLesson, q.id)
          THEN UNCHANGED movedLessonLessonMTM /\ Proceeds(u, "done", StorageError)
          ELSE /\ movedLessonLessonMTM' =
                     movedLessonLessonMTM (+) MovedLessonLinks(q.id, LessonIdsOf(q.body))
               /\ Proceeds(u, "done", OK)
       /\ UNCHANGED <<substitution, substitutionLessonMTM, movedLesson>>
       /\ UnchangedRequests

\* updateSubstitution up to db.transaction: the row is looked up and the
\* lesson ids are counted.
updateSubstitutionBegins(u) ==
    /\ route = "substitution" /\ pending[u].next = "idle"
    /\ \E id \in SubstitutionIds, body \in ConcurrentBodies :
          /\ Has(body, "lessonIds") => LessonCount(body["lessonIds"]) = Len(body["lessonIds"])
          /\ pending' = [pending EXCEPT ![u] =
                            [op |-> "updateSubstitution", id |-> id, body |-> body,
                             next |-> IF {x \in substitution : x.id = id} = {}
                                      THEN "done" ELSE "update substitution",
                             outcome |-> IF {x \in substitution : x.id = id} = {}
                                         THEN NOT_FOUND ELSE "none",
                             pre |-> Store, tx |-> Store]]
    /\ UnchangedStore /\ UnchangedRequests

\* Updater v has written the substitution row id in a transaction that is
\* still open: the row is locked until v commits or rolls back.
HoldsRow(v, id) ==
    /\ pending[v].op = "updateSubstitution" /\ pending[v].id = id
    /\ \E x \in pending[v].tx.substitution : x.id = id
    /\ pending[v].next \in {"delete substitutionLessonMTM", "insert substitutionLessonMTM",
                             "commit"}

\* tx.update(substitution).set(updateData).where(eq(substitution.id, id)):
\* the statement waits while another transaction holds the row.
updateSubstitutionRow(u) ==
    LET q == pending[u]
        updatedRows == {SetColumns(x, Without(q.body, {"lessonIds"})) :
                           x \in {y \in substitution : y.id = q.id}}
    IN /\ q.op = "updateSubstitution" /\ q.next = "update substitution"
       /\ \A v \in Updaters \ {u} : ~HoldsRow(v, q.id)
       /\ pending' = [pending EXCEPT
                         ![u].tx = [Store EXCEPT !.substitution =
                                       {x \in @ : x.id # q.id} \cup updatedRows],
                         ![u].next = IF SubstitutionReplacesLinks(q.body)
                                     THEN "delete substitutionLessonMTM" ELSE "commit"]
       /\ UnchangedStore /\ UnchangedRequests

\* tx.delete(substitutionLessonMTM).where(eq(substitutionLessonMTM.substitutionId, id))
updateSubstitutionDeletesLinks(u) ==
    LET q == pending[u]
    IN /\ q.op = "updateSubstitution" /\ q.next = "delete substitutionLessonMTM"
       /\ pending' = [pending EXCEPT
                         ![u].tx.substitutionLessonMTM = DeleteLinks(@, "substitutionId", q.id),
                         ![u].next = "insert substitutionLessonMTM"]
       /\ UnchangedStore /\ UnchangedRequests

\* tx.insert(substitutionLessonMTM).values(mtmValues): with no values the
\* query builder throws, with no substitution row of that id the foreign key
\* refuses the links, and the transaction is rolled back.
updateSubstitutionInsertsLinks(u) ==
    LET q == pending[u]
    IN /\ q.op = "updateSubstitution" /\ q.next = "insert substitutionLessonMTM"
       /\ IF EmptyValues(LessonIdsOf(q.body)) \/ ForeignKeyRejects(substitution, q.id)
          THEN pending' = [pending EXCEPT ![u].tx = Transaction(Store, @, FALSE),
                                          ![u].next = "done",
                                          ![u].outcome = StorageError]
          ELSE pending' = [pending EXCEPT
                              ![u].tx.substitutionLessonMTM =
                                  @ (+) SubstitutionLinks(q.id, LessonIdsOf(q.body)),
                              ![u].next = "commit"]
       /\ UnchangedStore /\ UnchangedRequests

\* The committed store with the rows of substitution id as transaction tx
\* has written them.
Committed(store, tx, id) ==
    [store EXCEPT
        !.substitution = {x \in @ : x.id # id} \cup {x \in tx.substitution : x.id = id},
        !.substitutionLessonMTM =
            DeleteLinks(@, "substitutionId", id)
                (+) Where(tx.substitutionLessonMTM,
                          {x \in BagToSet(tx.substitutionLessonMTM) : x.substitutionId = id})]

\* db.transaction returns: the statements of the transaction are committed.
updateSubstitutionCommits(u) ==
    LET q == pending[u]
        after == Transaction(Store, Committed(Store, q.tx, q.id), TRUE)
    IN /\ q.op = "updateSubstitution" /\ q.next = "commit"
       /\ substitution' = after.substitution
       /\ substitutionLessonMTM' = after.substitutionLessonMTM
       /\ Proceeds(u, "done", OK)
       /\ UNCHANGED <<movedLesson, movedLessonLessonMTM>>
       /\ UnchangedRequests

NextConcurrent ==
    \/ \E u \in Updaters : updateMovedLessonBegins(u)
    \/ \E u \in Updaters : updateMovedLessonRow(u)
    \/ \E u \in Updaters : updateMovedLessonDeletesLinks(u)
    \/ \E u \in Updaters : updateMovedLessonInsertsLinks(u)
    \/ \E u \in Updaters : updateSubstitutionBegins(u)
    \/ \E u \in Updaters : updateSubstitutionRow(u)
    \/ \E u \in Updaters : updateSubstitutionDeletesLinks(u)
    \/ \E u \in Updaters : updateSubstitutionInsertsLinks(u)
    \/ \E u \in Updaters : updateSubstitutionCommits(u)
    \/ getAllSubstitutions
    \/ getAllMovedLessons
    \/ Deliver

SpecConcurrent == InitConcurrent /\ [][NextConcurrent]_vars

-----------------------------------------------------------------------------
(* Overlapping creates, updates and deletes.  A create gives its row an    *)
(* id that no row has and no request in flight names.                      *)

\* createSubstitution: the lesson ids are counted, and the row and its links
\* are inserted in one transaction.
createSubstitutionCommits(u) ==
    /\ route = "substitution" /\ pending[u].next = "idle"
    /\ \E body \in ConcurrentBodies, newId \in SubstitutionIds :
          LET r == createSubstitutionRun(body, newId, "none")
          IN /\ ForeignKeyRejects(substitution, newId)
             /\ \A v \in Updaters : pending[v].id # newId
             /\ substitution' = r.store.substitution
             /\ substitutionLessonMTM' = r.store.substitutionLessonMTM
             /\ pending' = [pending EXCEPT ![u] =
                               [op |-> "createSubstitution", id |-> newId, body |-> body,
                                next |-> "done",
                                outcome |-> IF r.thrown = "none" THEN CREATED ELSE r.thrown,
                                pre |-> Store, tx |-> Store]]
    /\ UNCHANGED <<movedLesson, movedLessonLessonMTM>>
    /\ UnchangedRequests

\* createMovedLesson up to the end of db.insert(movedLesson).values({...}).
createMovedLessonRow(u) ==
    /\ route = "movedLesson" /\ pending[u].next = "idle"
    /\ \E body \in ConcurrentBodies, newId \in MovedLessonIds :
          /\ validateMovedLessonReferences(body, "none").thrown = "none"
          /\ ForeignKeyRejects(movedLesson, newId)
          /\ \A v \in Updaters : pending[v].id # newId
          /\ movedLesson' = movedLesson \cup
                 {[id |-> newId, date |-> body["date"], startingPeriod |-> NULL,
                   startingDay |-> NULL, room |-> NULL]}
          /\ pending' = [pending EXCEPT ![u] =
                            [op |-> "createMovedLesson", id |-> newId, body |-> body,
                             next |-> IF LessonIdsOf(body) # <<>>
                                      THEN "insert movedLessonLessonMTM" ELSE "done",
                             outcome |-> IF LessonIdsOf(body) # <<>> THEN "none" ELSE CREATED,
                             pre |-> Store, tx |-> Store]]
    /\ UNCHANGED <<substitution, substitutionLessonMTM, movedLessonLessonMTM>>
    /\ UnchangedRequests

\* db.insert(movedLessonLessonMTM).values(...) of createMovedLesson
createMovedLessonInsertsLinks(u) ==
    LET q == pending[u]
    IN /\ q.op = "createMovedLesson" /\ q.next = "insert movedLessonLessonMTM"
       /\ IF ForeignKeyRejects(movedLesson, q.id)
          THEN UNCHANGED movedLessonLessonMTM /\ Proceeds(u, "done", StorageError)
          ELSE /\ movedLessonLessonMTM' =
                     movedLessonLessonMTM (+) MovedLessonLinks(q.id, LessonIdsOf(q.body))
               /\ Proceeds(u, "done", CREATED)
       /\ UNCHANGED <<substitution, substitutionLessonMTM, movedLesson>>
       /\ UnchangedRequests

\* deleteSubstitution up to its delete statement: the row is looked up.
deleteSubstitutionBegins(u) ==
    /\ route = "substitution" /\ pending[u].next = "idle"
    /\ \E id \in SubstitutionIds :
          pending' = [pending EXCEPT ![u] =
                         [op |-> "deleteSubstitution", id |-> id, body |-> EmptyObj,
                          next |-> IF ForeignKeyRejects(substitution, id)
                                   THEN "done" ELSE "delete substitution",
                          outcome |-> IF ForeignKeyRejects(substitution, id)
                                      THEN NOT_FOUND ELSE "none",
                          pre |-> Store, tx |-> Store]]
    /\ UnchangedStore /\ UnchangedRequests

\* db.delete(substitution).where(eq(substitution.id, id)).returning(): the
\* statement waits while a transaction holds the row; what it returned is
\* not looked at.
deleteSubstitutionRow(u) ==
    LET q == pending[u]
    IN /\ q.op = "deleteSubstitution" /\ q.next = "delete substitution"
       /\ \A v \in Updaters \ {u} : ~HoldsRow(v, q.id)
       /\ substitution' = {x \in substitution : x.id # q.id}
       /\ substitutionLessonMTM' = OnDeleteCascade(substitutionLessonMTM, "substitutionId", q.id)
       /\ Proceeds(u, "done", OK)
       /\ UNCHANGED <<movedLesson, movedLessonLessonMTM>>
       /\ UnchangedRequests

\* deleteMovedLesson: db.delete(movedLesson).where(eq(movedLesson.id, id))
\* .returning() and the check of the row it returned.
deleteMovedLessonRow(u) ==
    /\ route = "movedLesson" /\ pending[u].next = "idle"
    /\ \E id \in MovedLessonIds :
          /\ movedLesson' = {x \in movedLesson : x.id # id}
          /\ movedLessonLessonMTM' = OnDeleteCascade(movedLessonLessonMTM, "movedLessonId", id)
          /\ pending' = [pending EXCEPT ![u] =
                            [op |-> "deleteMovedLesson", id |-> id, body |-> EmptyObj,
                             next |-> "done",
                             outcome |-> IF ForeignKeyRejects(movedLesson, id)
                                         THEN NOT_FOUND ELSE OK,
                             pre |-> Store, tx |-> Store]]
    /\ UNCHANGED <<substitution, substitutionLessonMTM>>
    /\ UnchangedRequests

NextInterleaved ==
    \/ \E u \in Updaters : createSubstitutionCommits(u)
    \/ \E u \in Updaters : updateSubstitutionBegins(u)
    \/ \E u \in Updaters : updateSubstitutionRow(u)
    \/ \E u \in Updaters : updateSubstitutionDeletesLinks(u)
    \/ \E u \in Updaters : updateSubstitutionInsertsLinks(u)
    \/ \E u \in Updaters : updateSubstitutionCommits(u)
    \/ \E u \in Updaters : deleteSubstitutionBegins(u)
    \/ \E u \in Updaters : deleteSubstitutionRow(u)
    \/ \E u \in Updaters : createMovedLessonRow(u)
    \/ \E u \in Updaters : createMovedLessonInsertsLinks(u)
    \/ \E u \in Updaters : updateMovedLessonBegins(u)
    \/ \E u \in Updaters : updateMovedLessonRow(u)
    \/ \E u \in Updaters : updateMovedLessonDeletesLinks(u)
    \/ \E u \in Updaters : updateMovedLessonInsertsLinks(u)
    \/ \E u \in Updaters : deleteMovedLessonRow(u)

SpecInterleaved == InitConcurrent /\ [][NextInterleaved]_vars

-----------------------------------------------------------------------------
(* Requests whose bodies carry an id.  The handlers read the body as JSON  *)
(* and cast it to a type; a key the type does not name stays in the body.  *)
(* The overrides are stored at the start and are updated and read.         *)

InitBodyId ==
    /\ route \in {"substitution", "movedLesson"}
    /\ positional = {"id"}
    /\ substitution = {[id |-> i, date |-> "2025-03-09", substituter |-> NULL] :
                          i \in SubstitutionIds}
    /\ substitutionLessonMTM = SubstitutionLinks("S1", <<"L1">>)
                                    (+) SubstitutionLinks("S2", <<"L1">>)
    /\ movedLesson = {[id |-> "M1", date |-> "2025-03-09", startingPeriod |-> NULL,
                        startingDay |-> NULL, room |-> NULL]}
    /\ movedLessonLessonMTM = MovedLessonLinks("M1", <<"L1">>)
    /\ lesson = InitLesson
    /\ lessonCohortMTM = InitLessonCohortMTM
    /\ catalog = InitCatalog
    /\ timetable = InitTimetable
    /\ call = Idle
    /\ pending = [u \in Updaters |-> NoUpdate]

NextBodyId ==
    \/ getAllSubstitutions
    \/ updateSubstitution
    \/ getAllMovedLessons
    \/ updateMovedLesson
    \/ Deliver

SpecBodyId == InitBodyId /\ [][NextBodyId]_vars

-----------------------------------------------------------------------------
(* Properties.  A property of a handler is stated on the call record the   *)
(* handler leaves: the request, what the handler did, and the store before *)
(* (call.pre) and after (Store) the call.                                  *)

MovedLessonWrites == {"createMovedLesson", "updateMovedLesson"}
SubstitutionWrites == {"createSubstitution", "updateSubstitution"}
\* The statements of a moved-lesson write that come after its row write.
AfterRowWrite == {"delete movedLessonLessonMTM", "insert movedLessonLessonMTM"}

\* C1: when a step after the row write of createMovedLesson or
\* updateMovedLesson fails, the store is as it was before the call: no row
\* and no link of the failed call persists.
C1_MovedLessonWriteLeavesNothing ==
    (call.op \in MovedLessonWrites /\ call.fail \in AfterRowWrite
        /\ call.thrown = StorageError)
    => Store = call.pre

\* C2: when a step of the write phase of createSubstitution or
\* updateSubstitution fails (the row insert or update, the link delete, the
\* link insert), the store is as it was before the call.
C2_SubstitutionWriteIsAtomic ==
    (call.op \in SubstitutionWrites /\ call.thrown = StorageError)
    => (Store = call.pre /\ call.status = INTERNAL_SERVER_ERROR)

\* An updateSubstitution whose link insert failed after its update had given
\* the row another date and its link delete had removed links.
C2_Witness ==
    /\ call.op = "updateSubstitution"
    /\ call.fail = "insert substitutionLessonMTM"
    /\ call.thrown = StorageError
    /\ Has(call.body, "date")
    /\ \E x \in call.pre.substitution : x.id = call.id /\ x.date # call.body["date"]
    /\ \E l \in BagToSet(call.pre.substitutionLessonMTM) : l.substitutionId = call.id

\* The bag of the lesson ids linked to override id in link table links.
LinkedLessons(links, col, id) ==
    LET mine == {x \in BagToSet(links) : x[col] = id}
        ids == {x.lessonId : x \in mine}
    IN [l \in ids |-> CopiesIn([c \in {col, "lessonId"} |->
                                    IF c = col THEN id ELSE l], links)]

\* The successful call in flight is an update that supplies a lesson-id list.
ReplacedLinks(op) ==
    call.op = op /\ call.status = OK /\ Has(call.body, "lessonIds")

\* C3: after a successful update that supplies the list B, a read returns
\* the override once, and its lessons are exactly the ids of B: no link the
\* override had before to an id outside B is left.
C3_FullReplaceRoundTrip ==
    /\ ReplacedLinks("updateSubstitution") =>
          /\ Cardinality({r \in SelectAllSubstitutions :
                             r.substitution.id = call.id}) = 1
          /\ \A r \in SelectAllSubstitutions :
                r.substitution.id = call.id =>
                   r.lessons = SeqToBag(call.body["lessonIds"])
    /\ ReplacedLinks("updateMovedLesson") =>
          /\ Cardinality({r \in SelectAllMovedLessons :
                             r.movedLesson.id = call.id}) = 1
          /\ \A r \in SelectAllMovedLessons :
                r.movedLesson.id = call.id =>
                   r.lessons = SeqToBag(call.body["lessonIds"])

\* A moved lesson linked to L1 and L2 has been updated with the list [L2].
C3_Witness ==
    /\ ReplacedLinks("updateMovedLesson")
    /\ call.body["lessonIds"] = <<"L2">>
    /\ BagToSet(LinkedLessons(call.pre.movedLessonLessonMTM, "movedLessonId", call.id))
          = {"L1", "L2"}

\* The successful call in flight is an update that supplies no list.
KeptLinks(op) ==
    call.op = op /\ call.status = OK /\ ~Has(call.body, "lessonIds")

\* C4: a successful update whose body has no lessonIds leaves the link
\* table as it was: the links of the updated override and those of every
\* other override.
C4_UpdateWithoutListKeepsLinks ==
    /\ KeptLinks("updateSubstitution") =>
          substitutionLessonMTM = call.pre.substitutionLessonMTM
    /\ KeptLinks("updateMovedLesson") =>
          movedLessonLessonMTM = call.pre.movedLessonLessonMTM

\* A moved lesson that has links was updated without a list, while another
\* moved lesson has links too.
C4_Witness ==
    /\ KeptLinks("updateMovedLesson")
    /\ \E x \in BagToSet(call.pre.movedLessonLessonMTM) : x.movedLessonId = call.id
    /\ \E x \in BagToSet(call.pre.movedLessonLessonMTM) : x.movedLessonId # call.id
    /\ \E m \in call.pre.movedLesson : m.id = call.id /\ m \notin movedLesson

LinkDeletes == {"delete substitutionLessonMTM", "delete movedLessonLessonMTM"}

\* C5: after a successful delete of an override no link row references its
\* id, and the handler issued no delete of link rows of its own: the links
\* went with the row.
C5_DeleteRemovesLinks ==
    /\ (call.op = "deleteSubstitution" /\ call.status = OK) =>
          /\ \A x \in BagToSet(substitutionLessonMTM) : x.substitutionId # call.id
          /\ \A x \in substitution : x.id # call.id
          /\ Range(call.stmts) \cap LinkDeletes = {}
    /\ (call.op = "deleteMovedLesson" /\ call.status = OK) =>
          /\ \A x \in BagToSet(movedLessonLessonMTM) : x.movedLessonId # call.id
          /\ \A x \in movedLesson : x.id # call.id
          /\ Range(call.stmts) \cap LinkDeletes = {}

\* A substitution that had links has been deleted.
C5_Witness ==
    /\ call.op = "deleteSubstitution" /\ call.status = OK
    /\ \E x \in BagToSet(call.pre.substitutionLessonMTM) : x.substitutionId = call.id

\* C6: a create or update that fails validation (a required field missing,
\* a malformed date, a reference or a lesson id that resolves nowhere) has
\* issued no write, and the store is as it was before the call.
C6_ValidationBeforeWrite ==
    (call.op \in SubstitutionWrites \cup MovedLessonWrites /\ call.thrown = BAD_REQUEST)
    => (Store = call.pre /\ Range(call.stmts) \cap WriteStmts = {})

\* A createSubstitution naming a lesson that does not exist was rejected
\* while the store held a substitution.
C6_Witness ==
    /\ call.op = "createSubstitution" /\ call.thrown = BAD_REQUEST
    /\ "LX" \in Range(LessonIdsOf(call.body))
    /\ call.pre.substitution # {}

RelevantReads ==
    {"getRelevantSubstitutions", "getRelevantSubstitutionsForCohort",
     "getRelevantMovedLessons", "getRelevantMovedLessonsForCohort"}
CohortReads ==
    {"getRelevantSubstitutionsForCohort", "getMovedLessonsForCohort",
     "getRelevantMovedLessonsForCohort"}
SubstitutionReads ==
    {"getAllSubstitutions", "getRelevantSubstitutions", "getRelevantSubstitutionsForCohort"}
MovedLessonReads ==
    {"getAllMovedLessons", "getRelevantMovedLessons", "getMovedLessonsForCohort",
     "getRelevantMovedLessonsForCohort"}

\* The override rows a read returned, and the stored rows it read from.
Returned ==
    IF call.op \in SubstitutionReads THEN {r.substitution : r \in call.data}
    ELSE {r.movedLesson : r \in call.data}
Stored == IF call.op \in SubstitutionReads THEN substitution ELSE movedLesson
\* The override is dated on or after the calendar date the clock of the
\* call shows.
DatedTodayOrLater(o) == DayNum(o.date) >= DayNum(LocalDateStr(call.now, call.tz))
\* The override has a link to a lesson that belongs to cohort cohortId.
LinkedToCohort(o, cohortId) ==
    LET links == IF call.op \in SubstitutionReads
                 THEN LinkedLessons(substitutionLessonMTM, "substitutionId", o.id)
                 ELSE LinkedLessons(movedLessonLessonMTM, "movedLessonId", o.id)
    IN \E l \in BagToSet(links) :
          /\ \E x \in lesson : x.id = l
          /\ \E m \in BagToSet(lessonCohortMTM) : m.lessonId = l /\ m.cohortId = cohortId

\* C7: a relevant read returns an override iff the override is dated on or
\* after today's calendar date (and, in a cohort read, is linked to the
\* cohort), at every clock time and every time-zone offset: one dated today
\* is returned, one dated yesterday is not.
C7_DateFilterBoundary ==
    (call.op \in RelevantReads /\ call.status = OK)
    => /\ \A o \in Returned : DatedTodayOrLater(o)
       /\ \A o \in Stored :
             (DatedTodayOrLater(o)
                 /\ (call.op \in CohortReads => LinkedToCohort(o, call.cohortId)))
             => o \in Returned

\* The cohort table has a row with this id; the cohort has a linked lesson.
CohortResolves(cohortId) == \E k \in catalog.cohort : k.id = cohortId
CohortHasLessons(cohortId) ==
    \E m \in BagToSet(lessonCohortMTM) :
        m.cohortId = cohortId /\ \E l \in lesson : l.id = m.lessonId

\* C8: getLessonsForCohort, when storage answers every statement: a cohort id
\* that resolves to no cohort gets NOT_FOUND, and the lesson join has not
\* been issued by then; an existing cohort with no linked lesson gets
\* success with an empty sequence; the cohort select is the first statement.
C8_LessonsForCohortOutcomes ==
    (call.op = "getLessonsForCohort" /\ call.fail = "none")
    => /\ call.stmts[1] = "select cohort"
       /\ ~CohortResolves(call.cohortId) =>
             (call.status = NOT_FOUND /\ call.stmts = <<"select cohort">>)
       /\ (CohortResolves(call.cohortId) /\ ~CohortHasLessons(call.cohortId)) =>
             (call.status = OK /\ call.data = EmptyBag)
       /\ (CohortResolves(call.cohortId) /\ CohortHasLessons(call.cohortId)) =>
             (call.status = OK /\ call.data # EmptyBag)

\* The lessons of cohort K3, which exists and has none, were read.
C8_Witness ==
    /\ call.op = "getLessonsForCohort" /\ call.fail = "none"
    /\ call.cohortId = "K3"
    /\ call.status = OK /\ call.data = EmptyBag

\* The rows a read returned for override o.
RowsOf(o) ==
    IF call.op \in SubstitutionReads THEN {r \in call.data : r.substitution.id = o.id}
    ELSE {r \in call.data : r.movedLesson.id = o.id}
\* The catalog row of a substitution's substituter (null when there is none).
TeacherOf(o) ==
    IF \E t \in catalog.teacher : t.id = o.substituter
    THEN CHOOSE t \in catalog.teacher : t.id = o.substituter
    ELSE NullObject

\* C9: a relevant read for cohort K returns exactly the overrides dated
\* today or later that have a linked lesson of K, each in one row; the row
\* of a substitution lists its linked lessons of K and carries the catalog
\* row of its substituter.
C9_CohortRelevantRead ==
    (call.op \in RelevantReads \cap CohortReads /\ call.status = OK)
    => /\ Returned = {o \in Stored : DatedTodayOrLater(o)
                                       /\ LinkedToCohort(o, call.cohortId)}
       /\ \A o \in Returned : Cardinality(RowsOf(o)) = 1
       /\ call.op \in SubstitutionReads =>
             \A r \in call.data :
                /\ r.teacher = TeacherOf(r.substitution)
                /\ \A m \in BagToSet(lessonCohortMTM) :
                      (m.cohortId = call.cohortId
                          /\ BagIn([substitutionId |-> r.substitution.id,
                                    lessonId |-> m.lessonId], substitutionLessonMTM))
                      => BagIn(m.lessonId, r.lessons)

\* C10: in every read, the lessons of a returned row are the set of all the
\* lesson ids the link table holds for that override; a cohort filter does
\* not narrow it to the lessons of the cohort.
C10_LessonsAreAllLinked ==
    /\ (call.op \in SubstitutionReads /\ call.status = OK) =>
          \A r \in call.data :
             BagToSet(r.lessons)
                = BagToSet(LinkedLessons(substitutionLessonMTM, "substitutionId",
                                         r.substitution.id))
    /\ (call.op \in MovedLessonReads /\ call.status = OK) =>
          \A r \in call.data :
             BagToSet(r.lessons)
                = BagToSet(LinkedLessons(movedLessonLessonMTM, "movedLessonId",
                                         r.movedLesson.id))

OverrideReads == SubstitutionReads \cup MovedLessonReads

\* C11: in every override read, no lesson id occurs more than once in the
\* lessons of a returned row, also when the link table holds two rows for
\* one (override, lesson) pair.
C11_LessonsWithoutRepeats ==
    (call.op \in OverrideReads /\ call.status = OK)
    => \A r \in call.data : \A l \in BagToSet(r.lessons) : CopiesIn(l, r.lessons) = 1

PlainReads ==
    {"getAllSubstitutions", "getRelevantSubstitutions",
     "getAllMovedLessons", "getRelevantMovedLessons"}
\* The override passes the date filter of the read in flight: the unfiltered
\* reads have none, a relevant read keeps the dates from its `today` on.
PassesDateFilter(o) ==
    CASE call.op = "getRelevantSubstitutions" -> DateGte(o.date, UtcDateStr(call.now))
      [] call.op = "getRelevantMovedLessons" ->
            DateGte(o.date, LocalMidnightUtcDateStr(call.now, call.tz))
      [] OTHER -> TRUE
\* The catalog row with this id, null when the id is NULL or resolves nowhere.
CatalogRow(table, id) ==
    IF \E x \in table : x.id = id THEN CHOOSE x \in table : x.id = id ELSE NullObject
\* The row an unfiltered or date-filtered read owes override o.
OwedRowHolds(r, o) ==
    IF call.op \in SubstitutionReads
    THEN r.substitution = o /\ r.teacher = CatalogRow(catalog.teacher, o.substituter)
    ELSE /\ r.movedLesson = o
         /\ r.period = CatalogRow(catalog.period, o.startingPeriod)
         /\ r.dayDefinition = CatalogRow(catalog.dayDefinition, o.startingDay)
         /\ r.classroom = CatalogRow(catalog.classroom, o.room)

\* C12: an unfiltered or date-filtered read returns every stored override
\* that passes its date filter in exactly one row, with or without links and
\* whether or not its references resolve: the row has the override's own
\* columns unchanged, and null for a reference that is absent or resolves
\* nowhere.
C12_ReadsAreNonLossy ==
    (call.op \in PlainReads /\ call.status = OK)
    => /\ \A o \in Stored :
             PassesDateFilter(o) =>
                /\ Cardinality(RowsOf(o)) = 1
                /\ \A r \in RowsOf(o) : OwedRowHolds(r, o)
       /\ Returned \subseteq {o \in Stored : PassesDateFilter(o)}

\* A relevant read returned a substitution whose substituter resolves to no
\* teacher, beside one that has no substituter.
C12_Witness ==
    /\ call.op = "getRelevantSubstitutions" /\ call.status = OK
    /\ \E r \in call.data : r.substitution.substituter = "TX" /\ r.teacher = NullObject
    /\ \E r \in call.data : r.substitution.substituter = NULL /\ r.teacher = NullObject

\* The override has no link row.
HasNoLinks(o) ==
    IF call.op \in SubstitutionReads
    THEN \A x \in BagToSet(substitutionLessonMTM) : x.substitutionId # o.id
    ELSE \A x \in BagToSet(movedLessonLessonMTM) : x.movedLessonId # o.id

\* C13: in every override read each returned row has a lessons field that
\* is an array, never null; the unfiltered read returns an override that has
\* no link row with lessons the empty array.
C13_LessonsNeverNull ==
    (call.op \in OverrideReads /\ call.status = OK)
    => /\ \A r \in call.data : "lessons" \in DOMAIN r /\ r.lessons # NullObject
       /\ call.op \in {"getAllSubstitutions", "getAllMovedLessons"} =>
             \A o \in Stored :
                HasNoLinks(o) =>
                   (RowsOf(o) # {} /\ \A r \in RowsOf(o) : r.lessons = EmptyBag)

\* The unfiltered read returned a moved lesson that has no link row.
C13_Witness ==
    /\ call.op = "getAllMovedLessons" /\ call.status = OK
    /\ \E o \in movedLesson : HasNoLinks(o) /\ RowsOf(o) # {}

OverrideMutations ==
    {"createSubstitution", "updateSubstitution", "deleteSubstitution",
     "createMovedLesson", "updateMovedLesson", "deleteMovedLesson"}

\* C14: a mutation of an actor whom the authorization check denies ends
\* with the authorization failure, whatever its body: the handler has not
\* run (no validation error, no statement issued) and the store is as it was.
C14_AuthorizationGate ==
    (call.op \in OverrideMutations /\ ~call.permitted)
    => /\ call.status = FORBIDDEN
       /\ call.thrown = FORBIDDEN
       /\ call.stmts = <<>>
       /\ Store = call.pre

\* A denied createSubstitution whose body lacks the required date, made
\* while the store held a substitution.
C14_Witness ==
    /\ call.op = "createSubstitution" /\ ~call.permitted
    /\ ~Has(call.body, "date")
    /\ call.pre.substitution # {}

\* The catalog table a simple reference field of a request points into.
ReferenceTable(field) ==
    CASE field = "substituter" -> catalog.teacher
      [] field = "startingPeriod" -> catalog.period
      [] field = "startingDay" -> catalog.dayDefinition
      [] field = "room" -> catalog.classroom
\* The simple reference fields of the body of the call in flight that
\* resolve to no catalog row.
UnresolvedReferences ==
    {f \in DOMAIN call.body \cap
              (IF call.op \in SubstitutionWrites THEN {"substituter"} ELSE PositionalFields) :
        ~(\E x \in ReferenceTable(f) : x.id = call.body[f])}
\* The field an error message names.
NamedField(message) ==
    CASE message = <<"Invalid starting period provided">> -> "startingPeriod"
      [] message = <<"Invalid starting day provided">> -> "startingDay"
      [] message = <<"Invalid classroom provided">> -> "room"
      [] OTHER -> "none"
\* Every id of the list resolves to a lesson.
AllResolve(lessonIds) == \A i \in DOMAIN lessonIds : \E l \in lesson : l.id = lessonIds[i]
\* The call in flight is a create or update that reached its handler, met no
\* storage failure, and has nothing wrong with it apart from its simple
\* reference fields.
SoundButForReferences ==
    /\ call.op \in SubstitutionWrites \cup MovedLessonWrites
    /\ call.permitted /\ call.fail = "none"
    /\ call.op \in {"createSubstitution", "createMovedLesson"} => Has(call.body, "date")
    /\ call.op = "createSubstitution" => Has(call.body, "lessonIds")
    /\ Has(call.body, "date") => ~IsNaNDate(call.body["date"])
    /\ Has(call.body, "lessonIds") =>
          /\ AllResolve(call.body["lessonIds"])
          /\ call.op \in SubstitutionWrites =>
                /\ call.body["lessonIds"] # <<>>
                /\ Cardinality(Range(call.body["lessonIds"])) = Len(call.body["lessonIds"])
    /\ call.op = "updateSubstitution" =>
          /\ \E x \in call.pre.substitution : x.id = call.id
          /\ DOMAIN call.body \ {"lessonIds"} # {}
    /\ call.op = "updateMovedLesson" =>
          /\ \E x \in call.pre.movedLesson : x.id = call.id
          /\ DOMAIN call.body \ {"lessonIds"} # {}

\* C15: a create or update whose body holds a simple reference field
\* (starting period, starting day, classroom, substitute teacher) that
\* resolves nowhere fails with an invalid-reference error that names such a
\* field.
C15_ReferencesMustResolve ==
    (SoundButForReferences /\ UnresolvedReferences # {})
    => /\ call.thrown = BAD_REQUEST
       /\ NamedField(call.message) \in UnresolvedReferences

\* The call in flight is a substitution write that supplies a lesson-id list
\* and got as far as the check of the list.
ReachedLessonCheck ==
    /\ call.op \in SubstitutionWrites
    /\ call.permitted /\ call.fail = "none"
    /\ Has(call.body, "lessonIds")
    /\ call.op = "createSubstitution" => Has(call.body, "date")
    /\ Has(call.body, "date") => ~IsNaNDate(call.body["date"])
    /\ call.op = "updateSubstitution" => \E x \in call.pre.substitution : x.id = call.id
LessonCheckMessages ==
    {"attempted to substitute non-existent lesson(s)", "Some lessons don't exist"}
\* The handler threw the error of its lesson check.
RejectedByLessonCheck ==
    /\ call.thrown = BAD_REQUEST
    /\ call.message # <<>>
    /\ call.message[1] \in LessonCheckMessages

\* C16: createSubstitution and updateSubstitution reject a supplied list at
\* the lesson check iff some id of the list resolves to no lesson; a list of
\* resolving ids that repeats one passes.
C16_LessonCheckIsExact ==
    ReachedLessonCheck
    => (RejectedByLessonCheck <=> ~AllResolve(call.body["lessonIds"]))

\* The call in flight is a create or update that supplies a lesson-id list
\* and got as far as looking the lessons up.
ReachedLessonLookup ==
    \/ ReachedLessonCheck
    \/ /\ call.op \in MovedLessonWrites
       /\ call.permitted /\ call.fail = "none"
       /\ Has(call.body, "lessonIds")
       /\ call.op = "createMovedLesson" => Has(call.body, "date")
       /\ UnresolvedReferences = {}
\* The lesson ids an error message enumerates.
NamedIds(message) ==
    IF message # <<>> /\ message[1] = "Invalid lesson ids provided"
    THEN Range(message[2]) ELSE {}
\* The supplied ids that resolve to no lesson.
UnresolvedLessonIds(lessonIds) ==
    {lessonIds[i] : i \in DOMAIN lessonIds} \ {l.id : l \in lesson}

\* C17: a create or update whose lesson-id list holds ids that resolve to no
\* lesson throws one invalid-reference error that enumerates exactly those
\* ids.
C17_MissingIdsEnumerated ==
    (ReachedLessonLookup /\ ~AllResolve(call.body["lessonIds"]))
    => /\ call.thrown = BAD_REQUEST
       /\ NamedIds(call.message) = UnresolvedLessonIds(call.body["lessonIds"])

\* C18: createSubstitution with a date and an empty lesson-id list ends with
\* BAD_REQUEST at the required-field check: no lesson lookup has been issued
\* and no substitution row is stored.
C18_EmptyListIsBadRequest ==
    (/\ call.op = "createSubstitution" /\ call.permitted
     /\ Has(call.body, "date") /\ Has(call.body, "lessonIds")
     /\ call.body["lessonIds"] = <<>>)
    => /\ call.status = BAD_REQUEST
       /\ call.stmts = <<>>
       /\ Store = call.pre

\* C19: whatever createSubstitution, updateSubstitution and
\* deleteSubstitution calls have been made, successful or failed, every
\* stored substitution has a link row; an update with an empty lesson-id
\* list leaves no substitution without links.
C19_SubstitutionsKeepALink ==
    \A x \in substitution :
        \E l \in BagToSet(substitutionLessonMTM) : l.substitutionId = x.id

\* An updateSubstitution of a stored substitution with an empty lesson-id
\* list, which got as far as replacing the links.
C19_Witness ==
    /\ call.op = "updateSubstitution" /\ call.permitted
    /\ Has(call.body, "lessonIds") /\ call.body["lessonIds"] = <<>>
    /\ "delete substitutionLessonMTM" \in Range(call.stmts)
    /\ \E x \in substitution : x.id = call.id

\* C20: a create of either kind whose body lacks the date ends with
\* BAD_REQUEST delivered to the caller, not with a 500, and is decided
\* before any reference lookup is issued.
C20_BadRequestReachesCaller ==
    (/\ call.op \in {"createSubstitution", "createMovedLesson"}
     /\ call.permitted /\ ~Has(call.body, "date"))
    => /\ call.status = BAD_REQUEST
       /\ call.stmts = <<>>

UpdatesAndDeletes ==
    {"updateSubstitution", "deleteSubstitution", "updateMovedLesson", "deleteMovedLesson"}
\* The call in flight is an update or delete by a permitted actor, which met
\* no storage failure, of an id no stored override of its kind has.
AddressedToNoRow ==
    /\ call.op \in UpdatesAndDeletes
    /\ call.permitted /\ call.fail = "none"
    /\ call.op \in {"updateSubstitution", "deleteSubstitution"} =>
          \A x \in call.pre.substitution : x.id # call.id
    /\ call.op \in {"updateMovedLesson", "deleteMovedLesson"} =>
          \A x \in call.pre.movedLesson : x.id # call.id

\* C21: an update or delete addressed to an id that no stored override has
\* ends with NOT_FOUND delivered to the caller, and every override row and
\* every link row is as it was before the call.
C21_NotFoundReachesCaller ==
    AddressedToNoRow => (call.status = NOT_FOUND /\ Store = call.pre)

\* The plan versions whose validFrom does not exceed the calendar date the
\* clock of the call shows.
InEffect ==
    {t \in timetable : DayNum(t.validFrom) <= DayNum(LocalDateStr(call.now, call.tz))}

\* C22: getLatestValidTimetable, run on date D, returns the timetable row
\* with the greatest validFrom that does not exceed D, and a success
\* response carrying the no-valid-timetable text when no row has one.
C22_LatestValidTimetable ==
    (call.op = "getLatestValidTimetable" /\ call.fail = "none")
    => /\ call.status = OK
       /\ call.data = IF InEffect = {} THEN {NoValidTimetable}
                      ELSE {t \in InEffect :
                               \A u \in InEffect : DayNum(u.validFrom) <= DayNum(t.validFrom)}

\* What the relevant read of the call in flight returns when it is called
\* again, on the store as it is now, at hour h of the same calendar day.
ReadAgainAt(h) ==
    CASE call.op = "getRelevantSubstitutions" ->
            SelectRelevantSubstitutions(Instant(h, call.tz))
      [] call.op = "getRelevantSubstitutionsForCohort" ->
            SelectRelevantSubstitutionsForCohort(Instant(h, call.tz), call.cohortId)
      [] call.op = "getRelevantMovedLessons" ->
            SelectRelevantMovedLessons(Instant(h, call.tz), call.tz)
      [] call.op = "getRelevantMovedLessonsForCohort" ->
            SelectRelevantMovedLessonsForCohort(Instant(h, call.tz), call.tz, call.cohortId)

\* C23: a relevant read leaves the store as it was, and the same read made
\* again on the same calendar day with no write in between returns the same
\* rows, with the same fields and the same lessons.
C23_RelevantReadIsIdempotent ==
    (call.op \in RelevantReads /\ call.status = OK)
    => /\ Store = call.pre
       /\ \A h \in ClockHours : ReadAgainAt(h) = call.data

\* The lesson row an enriched record was made from.
LessonOf(e) == CHOOSE l \in lesson : l.id = e.id
\* The ids of the list that resolve in the table, in the order of the list.
ResolvingIds(ids, table) == SelectSeq(ids, LAMBDA id : \E r \in table : r.id = id)
\* The ids of a sequence of enriched teachers or classrooms.
IdsIn(seq) == [i \in DOMAIN seq |-> seq[i].id]
\* The lesson rows linked to the cohort.
LinkedLessonRows(cohortId) ==
    {l \in lesson : \E m \in BagToSet(lessonCohortMTM) :
                       m.lessonId = l.id /\ m.cohortId = cohortId}

\* C24: in the result of getLessonsForCohort the teachers (the classrooms)
\* of a lesson are those of its teacherIds (classroomIds) that resolve in
\* the catalog, in the order of the ids on the lesson row; an id that
\* resolves nowhere is left out and the lesson's record stays.
C24_TolerantEnrichment ==
    (call.op = "getLessonsForCohort" /\ call.status = OK)
    => /\ \A e \in BagToSet(call.data) :
             /\ IdsIn(e.teachers) = ResolvingIds(LessonOf(e).teacherIds, catalog.teacher)
             /\ IdsIn(e.classrooms) = ResolvingIds(LessonOf(e).classroomIds, catalog.classroom)
       /\ \A l \in LinkedLessonRows(call.cohortId) :
             \E e \in BagToSet(call.data) : e.id = l.id

\* The lessons of a cohort were read whose lesson L1 names a teacher that
\* resolves nowhere before one that resolves, and likewise two classrooms.
C24_Witness ==
    /\ call.op = "getLessonsForCohort" /\ call.status = OK
    /\ \E e \in BagToSet(call.data) :
          /\ LessonOf(e).teacherIds = <<"TX", "T2">>
          /\ LessonOf(e).classroomIds = <<"RX", "R1">>
          /\ IdsIn(e.teachers) = <<"T2">>

\* The bag of the ids of a bag of rows.
IdBag(rows) ==
    LET ids == {r.id : r \in BagToSet(rows)}
        n(i) == LET S == {r \in BagToSet(rows) : r.id = i}
                IN CopiesIn(i, BagSum(S, [r \in S |-> Copies(i, CopiesIn(r, rows))]))
    IN [i \in ids |-> n(i)]

\* C25: getLessonsForCohort of an existing cohort, when storage answers every
\* statement, succeeds with one enriched record per lesson row linked to the
\* cohort (as many records, the same lesson ids); the record of a lesson
\* whose subject (period) id resolves nowhere has subject (period) null, and
\* the catalog row's fields otherwise.
C25_OneRecordPerLesson ==
    (call.op = "getLessonsForCohort" /\ call.fail = "none" /\ CohortResolves(call.cohortId))
    => /\ call.status = OK
       /\ IdBag(call.data) = IdBag(LessonRowsOfCohort(call.cohortId))
       /\ \A e \in BagToSet(call.data) :
             /\ IF \E x \in catalog.subject : x.id = LessonOf(e).subjectId
                THEN e.subject.id = LessonOf(e).subjectId
                ELSE e.subject = NullObject
             /\ IF \E x \in catalog.period : x.id = LessonOf(e).periodId
                THEN e.period.id = LessonOf(e).periodId
                ELSE e.period = NullObject

\* The two lessons of cohort K1 were read, one with a subject and a period
\* that resolve nowhere.
C25_Witness ==
    /\ call.op = "getLessonsForCohort" /\ call.status = OK /\ call.cohortId = "K1"
    /\ \E e \in BagToSet(call.data) :
          /\ LessonOf(e).subjectId = "SUBX" /\ LessonOf(e).periodId = "PX"
          /\ e.subject = NullObject /\ e.period = NullObject
    /\ \E e \in BagToSet(call.data) : e.id = "L2" /\ e.subject # NullObject

\* The ids of each entity kind that the lesson rows of a cohort refer to, by
\* the statement that looks the kind up.
CollectedIds(cohortId) ==
    LET ls == LinkedLessonRows(cohortId)
    IN [k \in {"select subject", "select dayDefinition", "select period",
               "select teacher", "select classroom"} |->
           CASE k = "select subject" -> {l.subjectId : l \in ls}
             [] k = "select dayDefinition" -> {l.dayDefinitionId : l \in ls}
             [] k = "select period" -> {l.periodId : l \in ls}
             [] k = "select teacher" -> FlatIds(ls, "teacherIds")
             [] k = "select classroom" -> FlatIds(ls, "classroomIds")]
\* How many times statement k was issued by the call in flight.
TimesIssued(k) == Cardinality({i \in DOMAIN call.stmts : call.stmts[i] = k})

\* C26: one getLessonsForCohort call issues at most one lookup per entity
\* kind, however many lessons the cohort has, and none for a kind whose
\* collected id set is empty; a call that succeeds with lessons has issued
\* the lookup of every kind whose id set is not empty.
C26_BatchedLookups ==
    call.op = "getLessonsForCohort"
    => \A k \in DOMAIN CollectedIds(call.cohortId) :
          /\ TimesIssued(k) <= 1
          /\ CollectedIds(call.cohortId)[k] = {} => TimesIssued(k) = 0
          /\ (call.status = OK /\ CollectedIds(call.cohortId)[k] # {}) => TimesIssued(k) = 1

\* The lessons of cohort K2 were read, whose one lesson names no teacher and
\* names a classroom.
C26_Witness ==
    /\ call.op = "getLessonsForCohort" /\ call.status = OK /\ call.cohortId = "K2"
    /\ CollectedIds("K2")["select teacher"] = {}
    /\ CollectedIds("K2")["select classroom"] # {}
    /\ TimesIssued("select classroom") = 1

\* C27: no create, update, delete or read of a substitution or a moved
\* lesson inserts, changes or deletes a lesson row, a lesson-cohort link or
\* a catalog row: each call leaves the three as they were, and after any
\* sequence of calls they are what they were at the start.
C27_OverridesLeaveThePlan ==
    /\ call.op \in OverrideMutations \cup OverrideReads =>
          /\ lesson = call.pre.lesson
          /\ lessonCohortMTM = call.pre.lessonCohortMTM
          /\ catalog = call.pre.catalog
    /\ route \in {"substitution", "movedLesson"} =>
          /\ lesson = InitLesson
          /\ lessonCohortMTM = InitLessonCohortMTM
          /\ catalog = InitCatalog

\* A moved lesson linked to a lesson has been deleted.
C27_Witness ==
    /\ call.op = "deleteMovedLesson" /\ call.status = OK
    /\ \E x \in BagToSet(call.pre.movedLessonLessonMTM) :
          x.movedLessonId = call.id /\ \E l \in lesson : l.id = x.lessonId

\* Updater u has begun an update that supplies a lesson-id list, and is the
\* only updater that has begun one.
ReplacesAlone(u) ==
    /\ pending[u].next # "idle" /\ Has(pending[u].body, "lessonIds")
    /\ \A v \in Updaters \ {u} : pending[v].next = "idle"
\* The override row of a row returned by a read.
OverrideOf(r) == IF call.op \in SubstitutionReads THEN r.substitution ELSE r.movedLesson
\* The returned row r shows the override of u's update as it was before the
\* update: the old columns and the old links.
SeesOld(r, u) ==
    IF call.op \in SubstitutionReads
    THEN /\ OverrideOf(r) \in pending[u].pre.substitution
         /\ r.lessons = LinkedLessons(pending[u].pre.substitutionLessonMTM,
                                      "substitutionId", pending[u].id)
    ELSE /\ OverrideOf(r) \in pending[u].pre.movedLesson
         /\ r.lessons = LinkedLessons(pending[u].pre.movedLessonLessonMTM,
                                      "movedLessonId", pending[u].id)
\* The returned row r shows the override as the whole update leaves it: the
\* new columns and the links of the supplied list.
SeesNew(r, u) ==
    /\ r.lessons = SeqToBag(pending[u].body["lessonIds"])
    /\ IF call.op \in SubstitutionReads
       THEN \E x \in pending[u].pre.substitution :
               OverrideOf(r) = SetColumns(x, Without(pending[u].body, {"lessonIds"}))
       ELSE \E x \in pending[u].pre.movedLesson :
               OverrideOf(r) = SetColumns(x, MovedLessonUpdateData(pending[u].body))

\* C28: a read that runs while an update replaces the links of an override
\* returns that override either with its old columns and all its old links
\* or with its new columns and all its new links, never with new columns
\* and old links or with some or none of the links.
C28_ReadSeesOldOrNew ==
    (call.op \in {"getAllSubstitutions", "getAllMovedLessons"} /\ call.status = OK)
    => \A u \in Updaters :
          ReplacesAlone(u) =>
             \A r \in call.data :
                OverrideOf(r).id = pending[u].id => (SeesOld(r, u) \/ SeesNew(r, u))

\* The lists the two updaters supply.
BothReplaced ==
    /\ \A u \in Updaters :
          /\ pending[u].next = "done" /\ pending[u].outcome = OK
          /\ Has(pending[u].body, "lessonIds")
    /\ \A u, v \in Updaters : pending[u].id = pending[v].id
\* The links override id has now.
LinksNow(op, id) ==
    IF op = "updateSubstitution"
    THEN LinkedLessons(substitutionLessonMTM, "substitutionId", id)
    ELSE LinkedLessons(movedLessonLessonMTM, "movedLessonId", id)

\* C30: when two updates of one override, supplying the lists A and B, have
\* both been made, however their statements interleaved, the links of the
\* override are those of A or those of B: not the links of both, no link
\* twice, not none.
C30_LinksAreOneListOrTheOther ==
    BothReplaced
    => \E u \in Updaters :
          LinksNow(pending[u].op, pending[u].id) = SeqToBag(pending[u].body["lessonIds"])

\* The stored rows of the kind the call in flight updates, before and after.
RowsBefore ==
    IF call.op = "updateSubstitution" THEN call.pre.substitution ELSE call.pre.movedLesson
RowsAfter == IF call.op = "updateSubstitution" THEN substitution ELSE movedLesson

UnfilteredRead ==
    IF call.op = "getRelevantSubstitutions" THEN SelectAllSubstitutions
    ELSE SelectAllMovedLessons
\* The override row of a returned record.
OverrideRowOf(r) ==
    IF call.op = "getRelevantSubstitutions" THEN r.substitution ELSE r.movedLesson

\* C32: on the same store, what getRelevantSubstitutions (getRelevantMovedLessons)
\* returns is what getAllSubstitutions (getAllMovedLessons) returns, restricted
\* to the rows dated today or later: each retained row has the same fields
\* and the same lessons, and no other row is returned.
C32_RelevantRefinesAll ==
    (call.op \in {"getRelevantSubstitutions", "getRelevantMovedLessons"}
        /\ call.status = OK)
    => call.data = {r \in UnfilteredRead : DatedTodayOrLater(OverrideRowOf(r))}

\* Every link row names an override row that is stored.
LinksNameStoredRows ==
    /\ \A l \in BagToSet(substitutionLessonMTM) :
          ~ForeignKeyRejects(substitution, l.substitutionId)
    /\ \A l \in BagToSet(movedLessonLessonMTM) :
          ~ForeignKeyRejects(movedLesson, l.movedLessonId)
\* An updateSubstitution that has ended in success had a row to update
\* when its update statement ran.
SuccessfulUpdateHadARow ==
    \A u \in Updaters :
        (pending[u].op = "updateSubstitution" /\ pending[u].outcome = OK)
        => \E x \in pending[u].tx.substitution : x.id = pending[u].id
\* The update statement of updateMovedLesson, run when no row has the id,
\* ends the request in failure.
UpdateOfNoRowFails ==
    \A u \in Updaters :
        (/\ pending[u].next = "update movedLesson"
         /\ pending'[u].next # "update movedLesson"
         /\ ForeignKeyRejects(movedLesson, pending[u].id))
        => (pending'[u].next = "done" /\ pending'[u].outcome \notin {OK, "none"})

\* C31: in every state of every interleaving of creates, updates and deletes
\* of overrides, every link row names an override row that is stored, and an
\* update whose update statement finds no row (the row was deleted after the
\* existence check) ends in failure, not in success.
C31_LinksNameRowsAndLostUpdatesFail ==
    [](LinksNameStoredRows /\ SuccessfulUpdateHadARow) /\ [][UpdateOfNoRowFails]_vars

=============================================================================
